---- MODULE Spec2Model ----
(***************************************************************************)
(* Model of Hayroll's seed extraction, invocation clustering and the run   *)
(* orchestration (hayroll_ds.rs, reaper_core.rs, cleaner_core.rs,          *)
(* merger_core.rs).                                                        *)
(*                                                                         *)
(* A HayrollTag is a record of the JSON payload fields the code reads,     *)
(* plus `ty`, the text of the base type the translator wrote in the else   *)
(* branch of an Expr seed (what HayrollSeed::base_type().to_string()       *)
(* returns).  Texts that the code takes apart (type names, signatures) are *)
(* sequences of one-character strings.                                     *)
(***************************************************************************)
EXTENDS Integers, Sequences, FiniteSets, TLC

VARIABLES
    kind,                  \* entry point: "lib", "reaper", "cleaner", "merger"
    pc,                    \* position inside the entry point
    err,                   \* which panic ended the run ("" while none)
    tags,                  \* hayroll_tags of the workspace, in document order
    cur,                   \* <<tag>> the fold consumed last (<<>> before the first)
    consumed,              \* number of tags the fold has consumed
    hayroll_seeds,         \* the fold's accumulator / the extracted seeds
    unmatched_begin_tags,  \* second component of the impl's result
    hayroll_macro_invs,    \* invocations with their bound argument seeds
    hayroll_conditional_macros, \* the conditional seeds
    db,                    \* HayrollMacroDB.map: key -> cluster
    visited,               \* cluster keys the invocation pass has visited
    delayed_tasks,         \* the planned edits, in planning order
    diags,                 \* warnings emitted so far
    out_regions,           \* per invocation: what its call-site region holds
    out_inserts,           \* definitions and calls inserted at file top/bottom
    patch_tags,            \* merger: hayroll_tags of the patch workspace
    patch_seeds,           \* merger: patch_hayroll_seeds
    written,               \* files of the workspace that fs::write has written
    base_items,            \* merger: top-level items of the base file
    patch_items            \* merger: top-level items of the patch file

extractVars == <<tags, cur, consumed, hayroll_seeds, unmatched_begin_tags>>
clusterVars == <<hayroll_macro_invs, hayroll_conditional_macros, db, visited>>
editVars    == <<delayed_tasks, diags, out_regions, out_inserts>>

runVars     == <<patch_tags, patch_seeds, written>>

itemVars    == <<base_items, patch_items>>

vars == <<kind, pc, err, extractVars, clusterVars, editVars, runVars, itemVars>>

-----------------------------------------------------------------------------
(* Bounds *)

MaxTags == 3

-----------------------------------------------------------------------------
(* Tags: hayroll_ds.rs HayrollTag and the HayrollMeta accessors *)

TyNone == <<>>

DefaultTag ==
    [ astKind     |-> "Expr",
      begin       |-> TRUE,
      locBegin    |-> "a.c:1:1",
      seedType    |-> "invocation",
      isArg       |-> FALSE,
      name        |-> "M",
      argNames    |-> <<>>,
      locRefBegin |-> "m.h:1:1",
      canBeFn     |-> FALSE,
      isLvalue    |-> FALSE,
      isPlaceholder |-> FALSE,
      mergedVariants |-> <<>>,
      pos         |-> 0,
      body        |-> <<>>,
      ty          |-> TyNone,
      absent      |-> {} ]

\* the accessors of HayrollMeta on a payload that lacks the fields in tag.absent:
\* `tag[f] == true` is false for an absent field, every other accessor unwraps
BoolByCompare == {"isArg", "canBeFn", "isLvalue", "begin"}

UnwrapNone == "called Option::unwrap() on a None value"

ReadField(tag, f) ==
    IF f \in BoolByCompare
    THEN [ok |-> TRUE, val |-> IF f \in tag.absent THEN FALSE ELSE tag[f], err |-> ""]
    ELSE IF f \in tag.absent THEN [ok |-> FALSE, val |-> "", err |-> UnwrapNone]
    ELSE [ok |-> TRUE, val |-> IF f \in DOMAIN tag THEN tag[f] ELSE "", err |-> ""]

is_expr(tag)  == tag.astKind = "Expr"
is_stmt(tag)  == tag.astKind = "Stmt"
is_stmts(tag) == tag.astKind = "Stmts"
is_decl(tag)  == tag.astKind = "Decl"
is_decls(tag) == tag.astKind = "Decls"
is_invocation(tag)  == tag.seedType = "invocation"
is_conditional(tag) == tag.seedType = "conditional"

-----------------------------------------------------------------------------
(* Seeds: enum HayrollSeed { Expr(tag), Stmts(tag_begin, tag_end), Decls(tag) } *)
(* Expr and Decls carry one tag; it is stored in both tag fields.               *)

ExprSeed(tag)          == [shape |-> "Expr",  tagBegin |-> tag, tagEnd |-> tag]
StmtsSeed(tagB, tagE)  == [shape |-> "Stmts", tagBegin |-> tagB, tagEnd |-> tagE]
DeclsSeed(tag)         == [shape |-> "Decls", tagBegin |-> tag, tagEnd |-> tag]

first_tag(seed) == seed.tagBegin

-----------------------------------------------------------------------------
(* The pairing fold of extract_hayroll_seeds_from_syntax_roots_impl *)

EmptyMap == [x \in {} |-> <<>>]

Ok(acc)    == [ok |-> TRUE,  acc |-> acc, err |-> ""]
Panic(acc, why) == [ok |-> FALSE, acc |-> acc, err |-> why]

\* mutant: the end tag is bound without comparing locBegin
MatchesBegin_NoLoc(seed, tag) ==
    /\ seed.shape = "Stmts"
    /\ seed.tagBegin.seedType = tag.seedType
    /\ tag.begin = FALSE

\* the condition under which an end tag is bound to a Stmts seed of the accumulator
MatchesBegin(seed, tag) ==
    /\ seed.shape = "Stmts"
    /\ seed.tagBegin.locBegin = tag.locBegin
    /\ seed.tagBegin.seedType = tag.seedType
    /\ tag.begin = FALSE

\* mutant: only a tag of a known astKind is searched for its begin tag
LastMatch_KnownKindOnly(acc, tag) ==
    LET hits == { i \in 1..Len(acc) :
                    MatchesBegin(acc[i], tag) /\ (is_stmt(tag) \/ is_stmts(tag)) }
    IN IF hits = {} THEN 0 ELSE CHOOSE i \in hits : \A j \in hits : j <= i

\* acc.iter_mut().rev(): the last seed of the accumulator that matches, 0 when none
LastMatch(acc, tag) ==
    LET hits == { i \in 1..Len(acc) : MatchesBegin(acc[i], tag) }
    IN IF hits = {} THEN 0 ELSE CHOOSE i \in hits : \A j \in hits : j <= i

\* mutant: an end tag that finds no begin tag is dropped instead of panicking
FoldTag_DropUnmatchedEnd(acc, tag) ==
    IF is_expr(tag) THEN
        IF tag.begin THEN Ok(Append(acc, ExprSeed(tag)))
        ELSE Panic(acc, "assert tag.begin")
    ELSE IF (is_stmt(tag) \/ is_stmts(tag)) /\ tag.begin = TRUE THEN
        Ok(Append(acc, StmtsSeed(tag, tag)))
    ELSE IF is_decl(tag) \/ is_decls(tag) THEN
        IF tag.begin THEN Ok(Append(acc, DeclsSeed(tag)))
        ELSE Panic(acc, "assert tag.begin")
    ELSE IF ~tag.begin THEN
        LET i == LastMatch(acc, tag)
        IN IF i = 0 THEN Ok(acc)
           ELSE Ok([acc EXCEPT ![i].tagEnd = tag])
    ELSE Panic(acc, "Unknown tag")

FoldTag(acc, tag) ==
    IF is_expr(tag) THEN
        IF tag.begin THEN Ok(Append(acc, ExprSeed(tag)))
        ELSE Panic(acc, "assert tag.begin")
    ELSE IF (is_stmt(tag) \/ is_stmts(tag)) /\ tag.begin = TRUE THEN
        Ok(Append(acc, StmtsSeed(tag, tag)))
    ELSE IF is_decl(tag) \/ is_decls(tag) THEN
        IF tag.begin THEN Ok(Append(acc, DeclsSeed(tag)))
        ELSE Panic(acc, "assert tag.begin")
    ELSE IF ~tag.begin THEN
        LET i == LastMatch(acc, tag)
        IN IF i = 0 THEN Panic(acc, "No matching begin stmt found for end stmt")
           ELSE Ok([acc EXCEPT ![i].tagEnd = tag])
    ELSE Panic(acc, "Unknown tag")

\* the filter_map that collects the begin tags still paired with themselves
UnmatchedBeginTags(seeds) ==
    LET keep(s) == s.shape = "Stmts" /\ s.tagBegin.begin /\ s.tagEnd.begin
        pick == SelectSeq(seeds, keep)
    IN [i \in 1..Len(pick) |-> pick[i].tagBegin]

-----------------------------------------------------------------------------
(* Entry "lib": extract_hayroll_seeds_from_syntax_roots on a tag stream that *)
(* is read one tag at a time.                                                *)

LocKeys == { <<"a.c:1:1", "invocation">>, <<"a.c:1:1", "conditional">>,
             <<"a.c:2:1", "invocation">> }

AstKinds == {"Expr", "Stmt", "Stmts", "Decl", "Decls", "Item"}

ExtractTags ==
    { [DefaultTag EXCEPT !.astKind = k, !.begin = b,
                         !.locBegin = lk[1], !.seedType = lk[2]]
        : k \in AstKinds, b \in BOOLEAN, lk \in LocKeys }

InitExtract ==
    /\ kind = "lib"
    /\ pc = "fold"
    /\ err = ""
    /\ tags = <<>>
    /\ cur = <<>>
    /\ consumed = 0
    /\ hayroll_seeds = <<>>
    /\ unmatched_begin_tags = <<>>
    /\ hayroll_macro_invs = <<>>
    /\ hayroll_conditional_macros = <<>>
    /\ db = EmptyMap
    /\ visited = {}
    /\ delayed_tasks = <<>>
    /\ diags = <<>>
    /\ out_regions = <<>>
    /\ out_inserts = <<>>
    /\ patch_tags = <<>>
    /\ patch_seeds = <<>>
    /\ written = {}
    /\ base_items = <<>>
    /\ patch_items = <<>>

\* one iteration of the fold on the next tag of the stream
ImplFoldTag ==
    /\ kind = "lib" /\ pc = "fold"
    /\ consumed < MaxTags
    /\ \E tag \in ExtractTags :
         LET r == FoldTag(hayroll_seeds, tag)
         IN /\ cur' = <<tag>>
            /\ consumed' = consumed + 1
            /\ hayroll_seeds' = r.acc
            /\ pc' = IF r.ok THEN "fold" ELSE "fatal"
            /\ err' = r.err
    /\ UNCHANGED <<kind, tags, unmatched_begin_tags, clusterVars, editVars, runVars, itemVars>>

\* the stream is exhausted: the impl returns (hayroll_seeds, unmatched_begin_tags)
ImplReturn ==
    /\ kind = "lib" /\ pc = "fold"
    /\ unmatched_begin_tags' = UnmatchedBeginTags(hayroll_seeds)
    /\ pc' = "impl_returned"
    /\ UNCHANGED <<kind, err, tags, cur, consumed, hayroll_seeds, clusterVars, editVars, runVars, itemVars>>

\* extract_hayroll_seeds_from_syntax_roots: panic unless `unmatched` is empty
ExtractSeedsReturn ==
    /\ kind = "lib" /\ pc = "impl_returned"
    /\ IF unmatched_begin_tags # <<>>
         THEN pc' = "fatal" /\ err' = "Unmatched begin tags found"
         ELSE pc' = "returned" /\ err' = err
    /\ UNCHANGED <<kind, extractVars, clusterVars, editVars, runVars, itemVars>>

NextExtract == ImplFoldTag \/ ImplReturn \/ ExtractSeedsReturn

SpecExtract == InitExtract /\ [][NextExtract]_vars

-----------------------------------------------------------------------------
(* Texts: type names and signatures as sequences of characters *)

AsciiAlphanumeric ==
    { "a","b","c","d","e","f","g","h","i","j","k","l","m","n","o","p","q","r",
      "s","t","u","v","w","x","y","z",
      "A","B","C","D","E","F","G","H","I","J","K","L","M","N","O","P","Q","R",
      "S","T","U","V","W","X","Y","Z",
      "0","1","2","3","4","5","6","7","8","9" }

\* raw.rsplit("::").next(): the text after the last "::" (all of it when none)
AfterLastPathSep(raw) ==
    LET seps == { p \in 1..(Len(raw) - 1) : raw[p] = ":" /\ raw[p + 1] = ":" }
    IN IF seps = {} THEN raw
       ELSE LET p == CHOOSE q \in seps : \A r \in seps : r <= q
            IN SubSeq(raw, p + 2, Len(raw))

\* the closure `sanitize` of HayrollMacroInv::signature
Sanitize(raw) ==
    LET keep(c) == c \in AsciiAlphanumeric \/ c = "_"
    IN SelectSeq(AfterLastPathSep(raw), keep)

\* parts.join("_")
RECURSIVE JoinUnderscore(_)
JoinUnderscore(parts) ==
    IF parts = <<>> THEN <<>>
    ELSE IF Len(parts) = 1 THEN parts[1]
    ELSE parts[1] \o <<"_">> \o JoinUnderscore(Tail(parts))

StmtText == <<"s", "t", "m", "t">>

-----------------------------------------------------------------------------
(* Seed compatibility: HayrollSeed::base_type, is_structurally_compatible_with, *)
(* is_type_compatible_with                                                      *)

\* base_type() is Some(..) exactly for an Expr seed
HasBaseType(seed) == seed.shape = "Expr"
base_type(seed)   == seed.tagBegin.ty

SeedStructCompat(a, b) == a.shape = b.shape

\* mutant: the type comparison without the structural conjunct
SeedTypeCompat_NoShape(a, b) ==
    IF a.shape = "Expr" /\ b.shape = "Expr"
    THEN base_type(a) = base_type(b)
    ELSE TRUE

SeedTypeCompat(a, b) ==
    /\ SeedStructCompat(a, b)
    /\ IF a.shape = "Expr" /\ b.shape = "Expr"
       THEN base_type(a) = base_type(b)
       ELSE TRUE

-----------------------------------------------------------------------------
(* Invocations: struct HayrollMacroInv { seed, args: Vec<(String, Vec<HayrollSeed>)> } *)

Slot(name, seeds) == [name |-> name, seeds |-> seeds]
Inv(seed, args)   == [seed |-> seed, args |-> args]

\* HasHayrollTag for HayrollMacroInv: the accessors read the seed's first tag
inv_tag(inv) == first_tag(inv.seed)

args_internally_structurally_compatible(inv) ==
    \A k \in 1..Len(inv.args) :
        LET seeds == inv.args[k].seeds
        IN seeds = <<>> \/ \A j \in 1..Len(seeds) : SeedStructCompat(seeds[j], seeds[1])

args_internally_type_compatible(inv) ==
    \A k \in 1..Len(inv.args) :
        LET seeds == inv.args[k].seeds
        IN seeds = <<>> \/ \A j \in 1..Len(seeds) : SeedTypeCompat(seeds[j], seeds[1])

\* mutant: a slot without occurrences is compatible with no slot
SlotStructCompat_NeverEmpty(seeds1, seeds2) ==
    /\ seeds1 # <<>> /\ seeds2 # <<>>
    /\ SeedStructCompat(seeds1[1], seeds2[1])

\* the slot-by-slot closure of is_structurally_compatible_with
SlotStructCompat(seeds1, seeds2) ==
    IF seeds1 = <<>> /\ seeds2 = <<>> THEN TRUE
    ELSE IF (seeds1 = <<>>) # (seeds2 = <<>>) THEN FALSE
    ELSE SeedStructCompat(seeds1[1], seeds2[1])

\* mutant: an empty slot matches any slot
SlotTypeCompat_Wildcard(seeds1, seeds2) ==
    IF seeds1 = <<>> \/ seeds2 = <<>> THEN TRUE
    ELSE SeedTypeCompat(seeds1[1], seeds2[1])

\* the slot-by-slot closure of is_type_compatible_with
SlotTypeCompat(seeds1, seeds2) ==
    IF seeds1 = <<>> /\ seeds2 = <<>> THEN TRUE
    ELSE IF (seeds1 = <<>>) # (seeds2 = <<>>) THEN FALSE
    ELSE SeedTypeCompat(seeds1[1], seeds2[1])

InvStructCompat(a, b) ==
    /\ SeedStructCompat(a.seed, b.seed)
    /\ args_internally_structurally_compatible(a)
    /\ args_internally_structurally_compatible(b)
    /\ Len(a.args) = Len(b.args)
    /\ \A k \in 1..Len(a.args) : SlotStructCompat(a.args[k].seeds, b.args[k].seeds)

InvTypeCompat(a, b) ==
    /\ SeedTypeCompat(a.seed, b.seed)
    /\ args_internally_type_compatible(a)
    /\ args_internally_type_compatible(b)
    /\ Len(a.args) = Len(b.args)
    /\ \A k \in 1..Len(a.args) : SlotTypeCompat(a.args[k].seeds, b.args[k].seeds)

-----------------------------------------------------------------------------
(* HayrollMacroInv::signature *)

SigOk(sig)     == [ok |-> TRUE,  sig |-> sig,  err |-> ""]
SigPanic(why)  == [ok |-> FALSE, sig |-> <<>>, err |-> why]

\* the part one argument slot contributes, or the panic of an unwrap()
SlotPart(seeds) ==
    IF \E j \in 1..Len(seeds) : is_stmt(first_tag(seeds[j])) THEN SigOk(StmtText)
    ELSE IF seeds = <<>> THEN SigPanic("unwrap on None: arg_regions.first()")
    ELSE IF ~HasBaseType(seeds[1]) THEN SigPanic("unwrap on None: base_type()")
    ELSE SigOk(Sanitize(base_type(seeds[1])))

\* mutant: the signature leaves the argument slots out
Signature_OwnTypeOnly(inv) ==
    IF is_decl(inv_tag(inv)) \/ is_decls(inv_tag(inv)) THEN SigOk(<<>>)
    ELSE IF is_expr(inv_tag(inv)) THEN SigOk(Sanitize(base_type(inv.seed)))
    ELSE SigOk(<<>>)

Signature(inv) ==
    IF is_decl(inv_tag(inv)) \/ is_decls(inv_tag(inv)) THEN SigOk(<<>>)
    ELSE
        LET own == IF is_expr(inv_tag(inv))
                     THEN <<SigOk(Sanitize(base_type(inv.seed)))>>
                     ELSE <<>>
            slots == [k \in 1..Len(inv.args) |-> SlotPart(inv.args[k].seeds)]
            parts == own \o slots
            bad   == { k \in 1..Len(parts) : ~parts[k].ok }
        IN IF bad # {}
           THEN SigPanic(parts[CHOOSE k \in bad : \A j \in bad : k <= j].err)
           ELSE SigOk(JoinUnderscore([k \in 1..Len(parts) |-> parts[k].sig]))

\* HayrollMacroInv::name_with_signature: the name of the synthesized definition
name_with_signature(inv) ==
    LET sg == Signature(inv).sig
    IN IF sg = <<>> THEN <<inv_tag(inv).name>>
       ELSE <<inv_tag(inv).name, "_">> \o sg

-----------------------------------------------------------------------------
(* Clusters and the database: HayrollMacroCluster, HayrollMacroDB.  A cluster   *)
(* lists its invocations by their position in hayroll_macro_invs (the code      *)
(* pushes a clone of the invocation).                                           *)

ClusterInvs(invs, c) == [j \in 1..Len(c) |-> invs[c[j]]]

invs_internally_structurally_compatible(invs, c) ==
    \A j \in 1..Len(c) : InvStructCompat(invs[c[j]], invs[c[1]])

invs_internally_type_compatible(invs, c) ==
    \A j \in 1..Len(c) : InvTypeCompat(invs[c[j]], invs[c[1]])

can_be_fn(invs, c) ==
    /\ invs_internally_type_compatible(invs, c)
    /\ \A j \in 1..Len(c) : inv_tag(invs[c[j]]).canBeFn

\* mutant: invocations are grouped by the declaration location alone
ClusterKey_RefOnly(inv, sig) == <<inv_tag(inv).locRefBegin, <<>>>>

ClusterKey(inv, sig) == <<inv_tag(inv).locRefBegin, sig>>

\* mutant: a new invocation goes to the front of its cluster
RECURSIVE FromInvsFrom_Prepend(_, _, _)
FromInvsFrom_Prepend(invs, i, map) ==
    IF i > Len(invs) THEN [ok |-> TRUE, map |-> map, err |-> ""]
    ELSE LET s == Signature(invs[i])
         IN IF ~s.ok THEN [ok |-> FALSE, map |-> map, err |-> s.err]
            ELSE LET key == ClusterKey(invs[i], s.sig)
                     withKey == IF key \in DOMAIN map THEN map
                                ELSE map @@ (key :> <<>>)
                 IN FromInvsFrom_Prepend(invs, i + 1,
                                 [withKey EXCEPT ![key] = <<i>> \o @])

RECURSIVE FromInvsFrom(_, _, _)
FromInvsFrom(invs, i, map) ==
    IF i > Len(invs) THEN [ok |-> TRUE, map |-> map, err |-> ""]
    ELSE LET s == Signature(invs[i])
         IN IF ~s.ok THEN [ok |-> FALSE, map |-> map, err |-> s.err]
            ELSE LET key == ClusterKey(invs[i], s.sig)
                     withKey == IF key \in DOMAIN map THEN map
                                ELSE map @@ (key :> <<>>)
                 IN FromInvsFrom(invs, i + 1,
                                 [withKey EXCEPT ![key] = Append(@, i)])

from_hayroll_macro_invs(invs) == FromInvsFrom(invs, 1, EmptyMap)

-----------------------------------------------------------------------------
(* The invocation pass of reaper_core::run: one cluster of the database *)

Task(op, key, inv) == [op |-> op, key |-> key, inv |-> inv]
Warn(msg, loc)     == [level |-> "warn", msg |-> msg, loc |-> loc]

PlanOk(tasks, warns) == [ok |-> TRUE,  tasks |-> tasks, warns |-> warns, err |-> ""]
PlanPanic(why)       == [ok |-> FALSE, tasks |-> <<>>,  warns |-> <<>>,  err |-> why]

\* HayrollMacroInv::args_require_lvalue
inv_args_require_lvalue(inv) ==
    [k \in 1..Len(inv.args) |->
        \/ inv.args[k].seeds = <<>>
        \/ \A j \in 1..Len(inv.args[k].seeds) : first_tag(inv.args[k].seeds[j]).isLvalue]

\* acc.iter().zip(arg_reqs.iter()).map(|(a, b)| *a && *b): as long as the shorter
ZipAnd(acc, reqs) ==
    [k \in 1..(IF Len(acc) <= Len(reqs) THEN Len(acc) ELSE Len(reqs)) |-> acc[k] /\ reqs[k]]

RECURSIVE FoldRequireLvalue(_, _, _, _)
FoldRequireLvalue(acc, invs, c, j) ==
    IF j > Len(c) THEN acc
    ELSE FoldRequireLvalue(ZipAnd(acc, inv_args_require_lvalue(invs[c[j]])), invs, c, j + 1)

\* mutant: the cluster takes the answer of its first invocation
args_require_lvalue_FirstOnly(invs, c) ==
    inv_args_require_lvalue(invs[c[1]])

\* HayrollMacroCluster::args_require_lvalue
args_require_lvalue(invs, c) ==
    FoldRequireLvalue([k \in 1..Len(invs[c[1]].args) |-> TRUE], invs, c, 1)

\* self.args.iter().zip(args_require_lvalue.iter()).filter_map(..): the slots
\* that are inside the zip and hold an occurrence
KeptSlots(inv, reqs) ==
    SelectSeq([k \in 1..(IF Len(inv.args) <= Len(reqs) THEN Len(inv.args) ELSE Len(reqs)) |-> k],
              LAMBDA k : inv.args[k].seeds # <<>>)

\* HayrollMacroInv::fn_: arg_with_types, one "name: type" per kept slot
fn_params(inv, reqs) ==
    LET kept == KeptSlots(inv, reqs)
    IN [n \in 1..Len(kept) |->
          [slot |-> kept[n], name |-> inv.args[kept[n]].name, by_ptr |-> reqs[kept[n]]]]

\* mutant: the call passes an operand for every slot, empty or not
call_args_KeepEmpty(inv, reqs) ==
    [n \in 1..Len(inv.args) |-> [slot |-> n, by_ptr |-> reqs[n]]]

\* HayrollMacroInv::call_expr: args_spelling, one operand per kept slot
call_args(inv, reqs) ==
    LET kept == KeptSlots(inv, reqs)
    IN [n \in 1..Len(kept) |-> [slot |-> kept[n], by_ptr |-> reqs[kept[n]]]]

\* warn! of fn_ / call_expr: one warning per empty argument slot of the invocation
RECURSIVE NeverUsedWarnsFrom(_, _)
NeverUsedWarnsFrom(inv, k) ==
    IF k > Len(inv.args) THEN <<>>
    ELSE (IF inv.args[k].seeds = <<>>
            THEN <<Warn("argument is never used in macro", inv_tag(inv).locBegin)>>
            ELSE <<>>)
         \o NeverUsedWarnsFrom(inv, k + 1)

NeverUsedWarns(inv) == NeverUsedWarnsFrom(inv, 1)

RECURSIVE FlattenWarns(_)
FlattenWarns(ws) == IF ws = <<>> THEN <<>> ELSE Head(ws) \o FlattenWarns(Tail(ws))

\* HayrollMacroInv::fn_ unwraps the type of the first occurrence of every
\* non-empty slot: None for an occurrence that is not an Expr seed
FnPanics(inv) ==
    \E k \in 1..Len(inv.args) :
        inv.args[k].seeds # <<>> /\ ~HasBaseType(inv.args[k].seeds[1])

\* HayrollMacroInv::macro_rules / macro_call index arg_regions[0] of every slot;
\* macro_rules also rejects a Decls occurrence
MacroRulesPanics(inv) ==
    \E k \in 1..Len(inv.args) :
        inv.args[k].seeds = <<>> \/ inv.args[k].seeds[1].shape = "Decls"

MacroCallPanics(inv) ==
    \E k \in 1..Len(inv.args) : inv.args[k].seeds = <<>>

\* the branch `if cluster.can_be_fn()`
PlanFn(invs, key, c) ==
    IF FnPanics(invs[c[1]]) THEN PlanPanic("unwrap on None: ptr_or_base_type()")
    ELSE IF \E j \in 1..Len(c) : invs[c[j]].seed.shape = "Decls"
    THEN PlanPanic("syntax_element_range is not well-defined for Decls variant")
    ELSE PlanOk(<<Task("insert_fn_bot", key, 0)>>
                  \o [j \in 1..Len(c) |-> Task("replace_with_fn_call", key, c[j])],
                NeverUsedWarns(invs[c[1]])
                  \o FlattenWarns([j \in 1..Len(c) |-> NeverUsedWarns(invs[c[j]])]))

\* the branch `else if cluster.invs_internally_structurally_compatible()`
PlanMacro(invs, key, c) ==
    IF MacroRulesPanics(invs[c[1]])
    THEN PlanPanic("macro_rules: arg_regions[0] out of bounds or Decls arg")
    ELSE IF \E j \in 1..Len(c) : MacroCallPanics(invs[c[j]])
    THEN PlanPanic("macro_call: arg_regions[0] out of bounds")
    ELSE PlanOk(<<Task("insert_macro_rules_top", key, 0)>>
                  \o [j \in 1..Len(c) |->
                        IF invs[c[j]].seed.shape = "Decls"
                        THEN Task("remove_decls_insert_macro_call_bot", key, c[j])
                        ELSE Task("replace_with_macro_call", key, c[j])],
                <<>>)

\* the final `else`: the cluster is skipped with a warning
PlanSkip(invs, key, c) ==
    PlanOk(<<>>, <<Warn("Hayroll macro cannot be converted: incompatible argument usage; skipping",
                        inv_tag(invs[c[1]]).locBegin)>>)

\* mutant: an incompatible cluster falls into the macro branch
PlanCluster_NoSkip(invs, key, c) ==
    IF can_be_fn(invs, c) THEN PlanFn(invs, key, c)
    ELSE PlanMacro(invs, key, c)

\* the body of `for (_loc_decl, cluster) in hayroll_macro_db.map.iter()`
PlanCluster(invs, key, c) ==
    IF can_be_fn(invs, c) THEN PlanFn(invs, key, c)
    ELSE IF invs_internally_structurally_compatible(invs, c) THEN PlanMacro(invs, key, c)
    ELSE PlanSkip(invs, key, c)

\* the effect of one delayed task on the call-site regions and on the file ends
ApplyRegion(task, regions) ==
    IF task.op = "replace_with_fn_call" THEN [regions EXCEPT ![task.inv] = "fn_call"]
    ELSE IF task.op = "replace_with_macro_call" THEN [regions EXCEPT ![task.inv] = "macro_call"]
    ELSE IF task.op = "remove_decls_insert_macro_call_bot" THEN [regions EXCEPT ![task.inv] = "removed"]
    ELSE regions

ApplyInserts(task, inserts) ==
    IF task.op = "insert_fn_bot" THEN Append(inserts, [pos |-> "bot", what |-> "fn", key |-> task.key])
    ELSE IF task.op = "insert_macro_rules_top"
    THEN <<[pos |-> "top", what |-> "macro_rules", key |-> task.key]>> \o inserts
    ELSE IF task.op = "remove_decls_insert_macro_call_bot"
    THEN Append(inserts, [pos |-> "bot", what |-> "macro_call", key |-> task.key])
    ELSE inserts

RECURSIVE RunTasks(_, _, _)
RunTasks(tasks, regions, inserts) ==
    IF tasks = <<>> THEN [regions |-> regions, inserts |-> inserts]
    ELSE RunTasks(Tail(tasks), ApplyRegion(Head(tasks), regions),
                  ApplyInserts(Head(tasks), inserts))

\* HayrollTag.literal: the tag at position i of the stream is the i-th tag
\* literal of the document; a tag that is not part of an extracted seed has pos 0
Located(ts)   == [i \in 1..Len(ts) |-> [ts[i] EXCEPT !.pos = i]]
Unlocated(ts) == [i \in 1..Len(ts) |-> [ts[i] EXCEPT !.pos = 0]]

RECURSIVE Concat(_)
Concat(ss) == IF ss = <<>> THEN <<>> ELSE Head(ss) \o Concat(Tail(ss))

\* HayrollMacroDB::from_hayroll_macro_invs(&hayroll_macro_invs)
ReaperBuildDB ==
    /\ kind = "reaper" /\ pc = "build_db"
    /\ LET r == from_hayroll_macro_invs(hayroll_macro_invs)
       IN /\ db' = r.map
          /\ pc' = IF r.ok THEN "plan_invocations" ELSE "fatal"
          /\ err' = r.err
    /\ UNCHANGED <<kind, extractVars, hayroll_macro_invs, hayroll_conditional_macros,
                   visited, editVars, runVars, itemVars>>

\* HayrollMacroInv::replace_arg_regions_into as the sequence of its steps: one
\* closure is pushed per argument occurrence, slot by slot, then the closures
\* run in the order they were pushed
ArgOccurrences(inv) ==
    Concat([k \in 1..Len(inv.args) |-> [j \in 1..Len(inv.args[k].seeds) |-> <<k, j>>]])

replace_arg_regions_into(inv) ==
    LET occ == ArgOccurrences(inv)
    IN [n \in 1..Len(occ) |-> <<"push", occ[n]>>] \o [n \in 1..Len(occ) |-> <<"run", occ[n]>>]

\* mutant: the edits of a cluster are applied as soon as they are planned
ReaperPlanCluster_Eager(key) ==
    /\ kind = "reaper" /\ pc = "plan_invocations"
    /\ key \in DOMAIN db /\ key \notin visited
    /\ LET r == PlanCluster(hayroll_macro_invs, key, db[key])
           x == RunTasks(r.tasks, out_regions, out_inserts)
       IN /\ visited' = visited \cup {key}
          /\ delayed_tasks' = delayed_tasks \o r.tasks
          /\ diags' = diags \o r.warns
          /\ out_regions' = x.regions
          /\ out_inserts' = x.inserts
          /\ pc' = IF r.ok THEN "plan_invocations" ELSE "fatal"
          /\ err' = r.err
    /\ UNCHANGED <<kind, extractVars, hayroll_macro_invs, hayroll_conditional_macros,
                   db, runVars, itemVars>>

\* one iteration of the loop over the clusters; the map is iterated in any order
ReaperPlanCluster(key) ==
    /\ kind = "reaper" /\ pc = "plan_invocations"
    /\ key \in DOMAIN db /\ key \notin visited
    /\ LET r == PlanCluster(hayroll_macro_invs, key, db[key])
       IN /\ visited' = visited \cup {key}
          /\ delayed_tasks' = delayed_tasks \o r.tasks
          /\ diags' = diags \o r.warns
          /\ pc' = IF r.ok THEN "plan_invocations" ELSE "fatal"
          /\ err' = r.err
    /\ UNCHANGED <<kind, extractVars, hayroll_macro_invs, hayroll_conditional_macros,
                   db, out_regions, out_inserts, runVars, itemVars>>


\* parent.statements() of the block that holds the tags: a Stmt/Stmts tag is a
\* marker statement followed by the statements listed in its body, the tag of an
\* Expr invocation or conditional sits inside an expression statement, the tag
\* of an argument sits inside its invocation, a Decl/Decls tag is a top-level item
Stmt(k, has_tag, marker, pos) == [kind |-> k, has_tag |-> has_tag, marker |-> marker, pos |-> pos]

FileStmts(ts) ==
    Concat([i \in 1..Len(ts) |->
        LET t == ts[i]
        IN IF is_stmt(t) \/ is_stmts(t)
           THEN <<Stmt("ExprStmt", TRUE, TRUE, i)>>
                  \o [k \in 1..Len(t.body) |-> Stmt(t.body[k], FALSE, FALSE, 0)]
           ELSE IF is_expr(t) /\ ~t.isArg THEN <<Stmt("ExprStmt", TRUE, FALSE, i)>>
           ELSE <<>>])

\* util::stmt_is_hayroll_tag: some byte string below the statement is a tag
stmt_is_hayroll_tag(stmt) == stmt.has_tag

\* stmt_list.statements().position(|s| s == stmt_begin)
StmtIndex(stmts, pos) == CHOOSE k \in 1..Len(stmts) : stmts[k].marker /\ stmts[k].pos = pos

\* get_raw_code_region of a Stmts seed: start_idx..=end_idx, counted from 0
StmtsRange(seed, stmts) ==
    [start |-> StmtIndex(stmts, seed.tagBegin.pos) - 1,
     end   |-> StmtIndex(stmts, seed.tagEnd.pos) - 1]

\* CodeRegion::peel_tag on CodeRegion::Stmts: new_start..=new_end
peel_tag(range) ==
    [start |-> IF range.start = range.end THEN range.start ELSE range.start + 1,
     end   |-> IF range.end = 0 THEN 0 ELSE range.end - 1]

\* the indices of a RangeInclusive
RangeIndices(range) == range.start..range.end

\* get_raw_code_region_inside_tag of a Stmts seed: start + 1 ..= end - 1 on
\* usize indices; `end - 1` with the end marker first in its block overflows,
\* which panics or wraps to usize::MAX depending on the build
get_raw_code_region_inside_tag(seed, stmts, wraps) ==
    LET start == StmtIndex(stmts, seed.tagBegin.pos)
        end   == StmtIndex(stmts, seed.tagEnd.pos)
    IN IF end = 1
       THEN IF wraps THEN [ok |-> TRUE, range |-> (start + 1)..Len(stmts), err |-> ""]
            ELSE [ok |-> FALSE, range |-> {}, err |-> "attempt to subtract with overflow"]
       ELSE [ok |-> TRUE, range |-> (start + 1)..(end - 1), err |-> ""]

\* one closure pushed on teds
CfgTask(seed, op, target) ==
    [op |-> op, key |-> <<first_tag(seed).locRefBegin, <<>>>>, inv |-> target,
     seed |-> first_tag(seed).pos]

\* the statements of the region that get `#[cfg(premise)]`, and the items of a
\* Decls region (listed in the body of its tag)
CfgTasksOf(seed, stmts, wraps) ==
    LET t == first_tag(seed)
    IN IF seed.shape = "Expr" THEN PlanOk(<<CfgTask(seed, "replace_then_branch", t.pos)>>, <<>>)
       ELSE IF seed.shape = "Stmts"
       THEN LET r == get_raw_code_region_inside_tag(seed, stmts, wraps)
            IN IF ~r.ok THEN PlanPanic(r.err)
               ELSE PlanOk([n \in 1..Cardinality({ i \in r.range : i <= Len(stmts) /\
                                 (stmts[i].kind = "ExprStmt" => ~stmt_is_hayroll_tag(stmts[i])) }) |->
                              CfgTask(seed, "add_attr",
                                  CHOOSE i \in r.range :
                                      /\ i <= Len(stmts)
                                      /\ stmts[i].kind = "ExprStmt" => ~stmt_is_hayroll_tag(stmts[i])
                                      /\ Cardinality({ h \in r.range : h < i /\
                                            (stmts[h].kind = "ExprStmt" =>
                                                ~stmt_is_hayroll_tag(stmts[h])) }) = n - 1)],
                           <<>>)
       ELSE PlanOk([k \in 1..Len(t.body) |-> CfgTask(seed, "add_attr_item", k)], <<>>)

\* mutant: a placeholder is gated like any other conditional seed
attach_cfg_teds_NoGuard(seed, stmts, wraps) ==
    CfgTasksOf(seed, stmts, wraps)

\* HayrollConditionalMacro::attach_cfg_teds
attach_cfg_teds(seed, stmts, wraps) ==
    LET t == first_tag(seed)
    IN IF t.isPlaceholder /\ ~(is_decl(t) \/ is_decls(t)) THEN PlanOk(<<>>, <<>>)
       ELSE CfgTasksOf(seed, stmts, wraps)

\* `for conditonal_macro in hayroll_conditional_macros.iter()`: the region inside
\* the tag is computed first, an empty region is skipped, then the gate is planned
RECURSIVE PlanConditionals(_, _, _)
PlanConditionals(conds, stmts, wraps) ==
    IF conds = <<>> THEN PlanOk(<<>>, <<>>)
    ELSE LET seed == Head(conds)
             region == IF seed.shape = "Stmts"
                       THEN get_raw_code_region_inside_tag(seed, stmts, wraps)
                       ELSE [ok |-> TRUE, range |-> {}, err |-> ""]
         IN IF ~region.ok THEN PlanPanic(region.err)
            ELSE IF seed.shape = "Decls" /\ first_tag(seed).body = <<>>
            THEN PlanConditionals(Tail(conds), stmts, wraps)
            ELSE LET r == attach_cfg_teds(seed, stmts, wraps)
                     rest == PlanConditionals(Tail(conds), stmts, wraps)
                 IN IF ~r.ok THEN r
                    ELSE IF ~rest.ok THEN rest
                    ELSE PlanOk(r.tasks \o rest.tasks, <<>>)

\* the loop over the conditional macros
ReaperPlanConditionals ==
    /\ kind = "reaper" /\ pc = "plan_invocations"
    /\ visited = DOMAIN db
    /\ \E wraps \in BOOLEAN :
         LET r == PlanConditionals(hayroll_conditional_macros, FileStmts(tags), wraps)
         IN /\ delayed_tasks' = delayed_tasks \o r.tasks
            /\ pc' = IF r.ok THEN "apply" ELSE "fatal"
            /\ err' = r.err
    /\ UNCHANGED <<kind, extractVars, clusterVars, diags, out_regions, out_inserts, runVars, itemVars>>

\* `for task in delayed_tasks { task(); }`
ReaperApplyTasks ==
    /\ kind = "reaper" /\ pc = "apply"
    /\ LET r == RunTasks(delayed_tasks, out_regions, out_inserts)
       IN /\ out_regions' = r.regions
          /\ out_inserts' = r.inserts
    /\ pc' = "applied"
    /\ UNCHANGED <<kind, err, extractVars, clusterVars, delayed_tasks, diags, runVars, itemVars>>

-----------------------------------------------------------------------------
(* Invocations the cluster specification starts from.  Every invocation is one *)
(* that extract_hayroll_macro_invs_from_seeds can build: one slot per argName, *)
(* each occurrence named after its slot and referring to the root's locBegin.  *)

MaxInvs == 3

TyI   == <<"i">>
TyF   == <<"f">>
TyMI  == <<"m", ":", ":", "i">>
TyI_I == <<"i", "_", "i">>

RootTag(loc, astKind, ty, canFn, ref, argNames) ==
    [DefaultTag EXCEPT !.astKind = astKind, !.locBegin = loc, !.ty = ty,
                       !.canBeFn = canFn, !.locRefBegin = ref, !.argNames = argNames]

RootSeed(tag) ==
    IF is_expr(tag) THEN ExprSeed(tag)
    ELSE IF is_stmt(tag) \/ is_stmts(tag) THEN StmtsSeed(tag, [tag EXCEPT !.begin = FALSE])
    ELSE DeclsSeed(tag)

\* an occurrence of argument x of the root at `loc`: "E" <type> or a statement span
ArgSeed(loc, occ) ==
    LET t == [DefaultTag EXCEPT !.isArg = TRUE, !.name = "x", !.locRefBegin = loc,
                                !.locBegin = "a.c:99:1", !.astKind = occ[1], !.ty = occ[2],
                                !.isLvalue = (Len(occ) = 3)]
    IN RootSeed(t)

MkInv(loc, astKind, ty, canFn, ref, slots) ==
    Inv(RootSeed(RootTag(loc, astKind, ty, canFn, ref,
                         [k \in 1..Len(slots) |-> "x"])),
        [k \in 1..Len(slots) |->
            Slot("x", [j \in 1..Len(slots[k]) |-> ArgSeed(loc, slots[k][j])])])

E(ty) == <<"Expr", ty>>
St    == <<"Stmt", TyNone>>
Sts   == <<"Stmts", TyNone>>
EL(ty) == <<"Expr", ty, "lvalue">>

ClusterInvUniverse ==
    { MkInv("a.c:1:1",  "Expr",  TyI,    TRUE,  "m.h:1:1", <<>>),
      MkInv("a.c:2:1",  "Expr",  TyMI,   TRUE,  "m.h:1:1", <<>>),
      MkInv("a.c:3:1",  "Expr",  TyI,    TRUE,  "m.h:1:1", << <<E(TyI)>> >>),
      MkInv("a.c:4:1",  "Expr",  TyI,    TRUE,  "m.h:1:1", << <<E(TyI), E(TyF)>> >>),
      MkInv("a.c:5:1",  "Expr",  TyI,    TRUE,  "m.h:1:1", << <<>> >>),
      MkInv("a.c:6:1",  "Expr",  TyI_I,  FALSE, "m.h:1:1", <<>>),
      MkInv("a.c:7:1",  "Stmt",  TyNone, FALSE, "m.h:1:1", << <<St>> >>),
      MkInv("a.c:8:1",  "Stmt",  TyNone, FALSE, "m.h:1:1", << <<E(TyI), St>> >>),
      MkInv("a.c:9:1",  "Decls", TyNone, TRUE,  "m.h:1:1", << <<>> >>),
      MkInv("a.c:10:1", "Decls", TyNone, TRUE,  "m.h:1:1", << <<E(TyI)>> >>),
      MkInv("a.c:11:1", "Decls", TyNone, TRUE,  "m.h:1:1", << <<E(TyF)>> >>),
      MkInv("a.c:12:1", "Decls", TyNone, FALSE, "m.h:1:1", <<>>),
      MkInv("a.c:13:1", "Expr",  TyF,    TRUE,  "m.h:2:1", <<>>),
      MkInv("a.c:14:1", "Expr",  TyI,    TRUE,  "m.h:1:1", << <<EL(TyI)>> >>),
      MkInv("a.c:15:1", "Decls", TyNone, FALSE, "m.h:1:1", << <<>> >>),
      MkInv("a.c:16:1", "Expr",  TyI,    FALSE, "m.h:1:1", << <<E(TyI)>> >>),
      MkInv("a.c:17:1", "Expr",  TyI,    FALSE, "m.h:1:1", << <<E(TyF)>> >>),
      MkInv("a.c:18:1", "Stmt",  TyNone, FALSE, "m.h:1:1", << <<E(TyI), Sts>> >>) }

SeqsUpTo(S, n) == UNION { [1..m -> S] : m \in 0..n }

InitCluster ==
    /\ kind = "reaper"
    /\ pc = "build_db"
    /\ err = ""
    /\ tags = <<>>
    /\ cur = <<>>
    /\ consumed = 0
    /\ hayroll_seeds = <<>>
    /\ unmatched_begin_tags = <<>>
    /\ hayroll_macro_invs \in SeqsUpTo(ClusterInvUniverse, MaxInvs)
    /\ hayroll_conditional_macros = <<>>
    /\ db = EmptyMap
    /\ visited = {}
    /\ delayed_tasks = <<>>
    /\ diags = <<>>
    /\ out_regions = [j \in 1..Len(hayroll_macro_invs) |-> "instrumented"]
    /\ out_inserts = <<>>
    /\ patch_tags = <<>>
    /\ patch_seeds = <<>>
    /\ written = {}
    /\ base_items = <<>>
    /\ patch_items = <<>>

NextCluster ==
    \/ ReaperBuildDB
    \/ \E key \in DOMAIN db : ReaperPlanCluster(key)
    \/ ReaperPlanConditionals
    \/ ReaperApplyTasks

SpecCluster == InitCluster /\ [][NextCluster]_vars

-----------------------------------------------------------------------------
(* The three runs, from the tags of the loaded workspace to the files on disk *)

MaxRunTags == 3
MaxMergerTags == 2

Files == {"a.rs", "b.rs"}

SeedsOk(seeds)         == [ok |-> TRUE,  seeds |-> seeds, err |-> ""]
SeedsPanic(seeds, why) == [ok |-> FALSE, seeds |-> seeds, err |-> why]

\* hayroll_tags.iter().fold(Vec::new(), ...): the fold over a whole tag stream
RECURSIVE FoldTags(_, _)
FoldTags(acc, ts) ==
    IF ts = <<>> THEN SeedsOk(acc)
    ELSE LET r == FoldTag(acc, Head(ts))
         IN IF r.ok THEN FoldTags(r.acc, Tail(ts)) ELSE SeedsPanic(r.acc, r.err)

\* the library entry: the fold, then the panic on begin tags left unmatched
extract_hayroll_seeds_from_syntax_roots(ts) ==
    LET r == FoldTags(<<>>, ts)
    IN IF ~r.ok THEN r
       ELSE IF UnmatchedBeginTags(r.seeds) # <<>>
       THEN SeedsPanic(r.seeds, "Unmatched begin tags found")
       ELSE r

\* the copy of the fold inside reaper_core::run: its result is used as it is
reaper_hayroll_seeds(ts) == FoldTags(<<>>, ts)

InvsOk(invs)   == [ok |-> TRUE,  invs |-> invs, err |-> ""]
InvsPanic(why) == [ok |-> FALSE, invs |-> <<>>, err |-> why]

\* mutant: an argument joins the first invocation its locRefBegin refers to
RECURSIVE ExtractInvsFrom_FirstRoot(_, _)
ExtractInvsFrom_FirstRoot(seeds, acc) ==
    IF seeds = <<>> THEN InvsOk(acc)
    ELSE LET region == Head(seeds)
             t == first_tag(region)
         IN IF ~is_invocation(t) THEN ExtractInvsFrom_FirstRoot(Tail(seeds), acc)
            ELSE IF t.isArg = FALSE
            THEN ExtractInvsFrom_FirstRoot(Tail(seeds),
                     Append(acc, Inv(region, [k \in 1..Len(t.argNames) |->
                                                 Slot(t.argNames[k], <<>>)])))
            ELSE LET hits == { i \in 1..Len(acc) : inv_tag(acc[i]).locBegin = t.locRefBegin }
                 IN IF hits = {} THEN InvsPanic("No matching macro found for arg")
                    ELSE LET m == CHOOSE i \in hits : \A j \in hits : i <= j
                             slots == { k \in 1..Len(acc[m].args) : acc[m].args[k].name = t.name }
                         IN IF slots = {} THEN InvsPanic("assert: no slot named after the arg")
                            ELSE LET k == CHOOSE x \in slots : \A y \in slots : x <= y
                                 IN ExtractInvsFrom_FirstRoot(Tail(seeds),
                                        [acc EXCEPT ![m].args[k].seeds = Append(@, region)])

\* the fold that builds hayroll_macro_invs: a root opens an invocation with one
\* empty slot per argName, an argument seed joins the last invocation whose
\* locBegin is the argument's locRefBegin
RECURSIVE ExtractInvsFrom(_, _)
ExtractInvsFrom(seeds, acc) ==
    IF seeds = <<>> THEN InvsOk(acc)
    ELSE LET region == Head(seeds)
             t == first_tag(region)
         IN IF ~is_invocation(t) THEN ExtractInvsFrom(Tail(seeds), acc)
            ELSE IF t.isArg = FALSE
            THEN ExtractInvsFrom(Tail(seeds),
                     Append(acc, Inv(region, [k \in 1..Len(t.argNames) |->
                                                 Slot(t.argNames[k], <<>>)])))
            ELSE LET hits == { i \in 1..Len(acc) : inv_tag(acc[i]).locBegin = t.locRefBegin }
                 IN IF hits = {} THEN InvsPanic("No matching macro found for arg")
                    ELSE LET m == CHOOSE i \in hits : \A j \in hits : j <= i
                             slots == { k \in 1..Len(acc[m].args) : acc[m].args[k].name = t.name }
                         IN IF slots = {} THEN InvsPanic("assert: no slot named after the arg")
                            ELSE LET k == CHOOSE x \in slots : \A y \in slots : x <= y
                                 IN ExtractInvsFrom(Tail(seeds),
                                        [acc EXCEPT ![m].args[k].seeds = Append(@, region)])

ConditionalSeeds(seeds) == SelectSeq(seeds, LAMBDA sd : is_conditional(first_tag(sd)))

\* reaper_core::run, from the tags to hayroll_seeds
ReaperExtractSeeds ==
    /\ kind = "reaper" /\ pc = "extract"
    /\ LET r == reaper_hayroll_seeds(Located(tags))
       IN /\ hayroll_seeds' = r.seeds
          /\ pc' = IF r.ok THEN "extract_invs" ELSE "fatal"
          /\ err' = r.err
    /\ consumed' = Len(tags)
    /\ UNCHANGED <<kind, tags, cur, unmatched_begin_tags, clusterVars, editVars, runVars, itemVars>>

\* reaper_core::run, from hayroll_seeds to the invocations and conditional macros
ReaperExtractInvs ==
    /\ kind = "reaper" /\ pc = "extract_invs"
    /\ LET r == ExtractInvsFrom(hayroll_seeds, <<>>)
       IN /\ hayroll_macro_invs' = r.invs
          /\ hayroll_conditional_macros' =
                IF r.ok THEN ConditionalSeeds(hayroll_seeds) ELSE <<>>
          /\ out_regions' = [j \in 1..Len(r.invs) |-> "instrumented"]
          /\ pc' = IF r.ok THEN "build_db" ELSE "fatal"
          /\ err' = r.err
    /\ UNCHANGED <<kind, extractVars, db, visited, delayed_tasks, diags, out_inserts, runVars, itemVars>>

\* builder.finish(), source_change.merge, apply_source_change: the in-memory text
ReaperCommit ==
    /\ kind = "reaper" /\ pc = "applied"
    /\ pc' = "write"
    /\ UNCHANGED <<kind, err, extractVars, clusterVars, editVars, runVars, itemVars>>

\* one iteration of `for file_id in syntax_roots.keys() { ... fs::write(path, code)?; }`
WriteFile(k) ==
    /\ kind = k /\ pc = "write"
    /\ \E f \in Files \ written :
         \/ /\ written' = written \cup {f}
            /\ pc' = IF written' = Files THEN "done" ELSE "write"
            /\ err' = err
         \/ /\ written' = written
            /\ pc' = "fatal"
            /\ err' = "fs::write failed"
    /\ UNCHANGED <<kind, extractVars, clusterVars, editVars, patch_tags, patch_seeds, itemVars>>

ReaperWriteFile == WriteFile("reaper")

\* mutant: pass 1 of the cleanup writes its result to disk
CleanerPass1_WritesDisk ==
    /\ kind = "cleaner" /\ pc = "extract"
    /\ LET r == extract_hayroll_seeds_from_syntax_roots(tags)
       IN /\ hayroll_seeds' = r.seeds
          /\ pc' = IF r.ok THEN "pass2" ELSE "fatal"
          /\ err' = r.err
          /\ tags' = IF r.ok THEN SelectSeq(tags, LAMBDA t : ~is_expr(t)) ELSE tags
          /\ written' = IF r.ok THEN Files ELSE written
    /\ consumed' = Len(tags)
    /\ UNCHANGED <<kind, cur, unmatched_begin_tags, clusterVars, editVars,
                   patch_tags, patch_seeds, itemVars>>

\* cleaner_core::run, pass 1: extract, peel every Expr seed, apply to the in-memory text
CleanerPass1 ==
    /\ kind = "cleaner" /\ pc = "extract"
    /\ LET r == extract_hayroll_seeds_from_syntax_roots(tags)
       IN /\ hayroll_seeds' = r.seeds
          /\ pc' = IF r.ok THEN "pass2" ELSE "fatal"
          /\ err' = r.err
          /\ tags' = IF r.ok THEN SelectSeq(tags, LAMBDA t : ~is_expr(t)) ELSE tags
    /\ consumed' = Len(tags)
    /\ UNCHANGED <<kind, cur, unmatched_begin_tags, clusterVars, editVars, runVars, itemVars>>

\* cleaner_core::run, pass 2: extract again, delete the begin and end statement of
\* every Stmts seed, apply to the in-memory text
CleanerPass2 ==
    /\ kind = "cleaner" /\ pc = "pass2"
    /\ LET r == extract_hayroll_seeds_from_syntax_roots(tags)
           stmts == SelectSeq(r.seeds, LAMBDA sd : sd.shape = "Stmts")
       IN /\ hayroll_seeds' = r.seeds
          /\ pc' = IF r.ok THEN "write" ELSE "fatal"
          /\ err' = r.err
          /\ delayed_tasks' =
                IF r.ok THEN [j \in 1..Len(stmts) |->
                                Task("delete_begin_end", <<stmts[j].tagBegin.locBegin, <<>>>>, 0)]
                ELSE delayed_tasks
          /\ tags' = IF r.ok THEN SelectSeq(tags, LAMBDA t : is_decl(t) \/ is_decls(t))
                     ELSE tags
    /\ consumed' = Len(tags)
    /\ UNCHANGED <<kind, cur, unmatched_begin_tags, clusterVars, diags, out_regions,
                   out_inserts, runVars, itemVars>>

CleanerWriteFile == WriteFile("cleaner")

\* merger_core::run: the seeds and conditional macros of the base workspace
MergerExtractBase ==
    /\ kind = "merger" /\ pc = "extract"
    /\ LET r == extract_hayroll_seeds_from_syntax_roots(Located(tags))
       IN /\ hayroll_seeds' = r.seeds
          /\ hayroll_conditional_macros' = IF r.ok THEN ConditionalSeeds(r.seeds) ELSE <<>>
          /\ pc' = IF r.ok THEN "extract_patch" ELSE "fatal"
          /\ err' = r.err
    /\ consumed' = Len(tags)
    /\ UNCHANGED <<kind, tags, cur, unmatched_begin_tags, hayroll_macro_invs, db, visited,
                   editVars, runVars, itemVars>>

\* merger_core::run: the seeds of the patch workspace
MergerExtractPatch ==
    /\ kind = "merger" /\ pc = "extract_patch"
    /\ LET r == extract_hayroll_seeds_from_syntax_roots(Located(patch_tags))
       IN /\ patch_seeds' = r.seeds
          /\ pc' = IF r.ok THEN "plan" ELSE "fatal"
          /\ err' = r.err
    /\ UNCHANGED <<kind, extractVars, clusterVars, editVars, patch_tags, written, itemVars>>

\* base_hayroll_conditional_macros_unique_ref: the first macro of every locRefBegin
RECURSIVE UniqueRef(_, _)
UniqueRef(macros, acc) ==
    IF macros = <<>> THEN acc
    ELSE LET m == Head(macros)
         IN IF \E i \in 1..Len(acc) : first_tag(acc[i]).locRefBegin = first_tag(m).locRefBegin
            THEN UniqueRef(Tail(macros), acc)
            ELSE UniqueRef(Tail(macros), Append(acc, m))

\* base_macro.seed.merged_variants().contains(&patch_macro.loc_begin())
AlreadyMerged(base, patch) ==
    \E v \in 1..Len(first_tag(base).mergedVariants) :
        first_tag(base).mergedVariants[v] = first_tag(patch).locBegin

\* mutant: two concrete seeds are merged without consulting mergedVariants
PairEdit_NoGuard(base, patch) ==
    LET bp == first_tag(base).isPlaceholder
        pp == first_tag(patch).isPlaceholder
        key == <<first_tag(base).locRefBegin, <<>>>>
    IN IF bp /\ ~pp
       THEN IF base.shape = patch.shape /\ base.shape # "Decls"
            THEN <<Task("replace_base_with_patch", key, 0)>> ELSE <<>>
       ELSE IF ~bp /\ ~pp
       THEN (IF base.shape = patch.shape /\ base.shape # "Decls"
             THEN <<Task("append_patch_variant", key, 0)>> ELSE <<>>)
            \o <<Task("append_merged_variant_to_tag", key, 0)>>
       ELSE <<>>

\* the edits planned for one (base, patch) pair, <<>> when no edit is needed
PairEdit(base, patch) ==
    LET bp == first_tag(base).isPlaceholder
        pp == first_tag(patch).isPlaceholder
        key == <<first_tag(base).locRefBegin, <<>>>>
    IN IF bp /\ ~pp
       THEN IF base.shape = patch.shape /\ base.shape # "Decls"
            THEN <<Task("replace_base_with_patch", key, 0)>> ELSE <<>>
       ELSE IF ~bp /\ ~pp
       THEN IF AlreadyMerged(base, patch) THEN <<>>
            ELSE (IF base.shape = patch.shape /\ base.shape # "Decls"
                  THEN <<Task("append_patch_variant", key, 0)>> ELSE <<>>)
                 \o <<Task("append_merged_variant_to_tag", key, 0)>>
       ELSE <<>>

RECURSIVE PairEdits(_, _)
PairEdits(bases, patches) ==
    IF bases = <<>> THEN <<>>
    ELSE LET b == Head(bases)
             hits == { i \in 1..Len(patches) :
                         first_tag(patches[i]).locRefBegin = first_tag(b).locRefBegin }
         IN (IF hits = {} THEN <<>>
             ELSE PairEdit(b, patches[CHOOSE i \in hits : \A j \in hits : i <= j]))
            \o PairEdits(Tail(bases), patches)

\* paired_conditional_macros: every unique base macro with the first patch macro
\* of the same locRefBegin
RECURSIVE MergePairs(_, _)
MergePairs(bases, patches) ==
    IF bases = <<>> THEN <<>>
    ELSE LET b == Head(bases)
             hits == { i \in 1..Len(patches) :
                         first_tag(patches[i]).locRefBegin = first_tag(b).locRefBegin }
         IN (IF hits = {} THEN <<>>
             ELSE << <<b, patches[CHOOSE i \in hits : \A j \in hits : i <= j]>> >>)
            \o MergePairs(Tail(bases), patches)

\* `match (base_macro.is_placeholder(), patch_macro.is_placeholder())` can be
\* evaluated for every pair
PairsReadable(pairs) ==
    \A k \in 1..Len(pairs) :
        /\ ReadField(first_tag(pairs[k][1]), "isPlaceholder").ok
        /\ ReadField(first_tag(pairs[k][2]), "isPlaceholder").ok

PairOps(pair) == { PairEdit(pair[1], pair[2])[k].op : k \in 1..Len(PairEdit(pair[1], pair[2])) }

\* the tags of the base file once the edits of the pairs are applied: a replaced
\* region (tags included) gives way to the patch's region, a merged seed gets the
\* patch's live branch appended and its tag literal rewritten
MergedTags(btags, ptags, pairs) ==
    LET replaced == { k \in 1..Len(pairs) : "replace_base_with_patch" \in PairOps(pairs[k]) }
        retagged == { k \in 1..Len(pairs) : "append_merged_variant_to_tag" \in PairOps(pairs[k]) }
        piece(i) ==
            IF \E k \in replaced : pairs[k][1].tagBegin.pos < i /\ i <= pairs[k][1].tagEnd.pos
            THEN <<>>
            ELSE IF \E k \in replaced : pairs[k][1].tagBegin.pos = i
            THEN LET k == CHOOSE x \in replaced : pairs[x][1].tagBegin.pos = i
                 IN SubSeq(ptags, pairs[k][2].tagBegin.pos, pairs[k][2].tagEnd.pos)
            ELSE IF \E k \in retagged : pairs[k][1].tagBegin.pos = i
            THEN LET k == CHOOSE x \in retagged : pairs[x][1].tagBegin.pos = i
                     pt == first_tag(pairs[k][2])
                 IN <<[btags[i] EXCEPT
                         !.mergedVariants = Append(@, pt.locBegin),
                         !.body = IF "append_patch_variant" \in PairOps(pairs[k])
                                  THEN @ \o pt.body ELSE @]>>
            ELSE <<btags[i]>>
    IN Unlocated(Concat([i \in 1..Len(btags) |-> piece(i)]))

\* a top-level item: its name ("" when it has none), its attributes, whether it
\* is a macro definition, and for an extern block its ABI and members
Item(name, attrs, macro) ==
    [name |-> name, attrs |-> attrs, macro |-> macro, abi |-> "", members |-> <<>>]
ExternBlock(abi, members) ==
    [name |-> abi, attrs |-> "", macro |-> FALSE, abi |-> abi, members |-> members]

ItemSig(it) == <<it.name, it.attrs>>
ItemSigs(items) == { ItemSig(items[i]) : i \in { j \in 1..Len(items) : items[j].name # "" } }

\* extern_c_items: the members of the extern "C" blocks of a file
ExternCItems(items) ==
    Concat([i \in 1..Len(items) |-> IF items[i].abi = "C" THEN items[i].members ELSE <<>>])

\* the patch items to insert at the top, at the bottom, and into the first
\* extern block of the base file
ItemsToTop(base, patch) ==
    SelectSeq(patch, LAMBDA it : it.name # "" /\ ItemSig(it) \notin ItemSigs(base) /\ it.macro)
ItemsToBot(base, patch) ==
    SelectSeq(patch, LAMBDA it : it.name # "" /\ ItemSig(it) \notin ItemSigs(base) /\ ~it.macro)
ItemsToExtern(base, patch) ==
    IF \A i \in 1..Len(base) : base[i].abi = "" THEN <<>>
    ELSE SelectSeq(ExternCItems(patch),
                   LAMBDA it : it.name # "" /\ ItemSig(it) \notin ItemSigs(ExternCItems(base)))

MergedItems(base, patch) ==
    LET blocks == { i \in 1..Len(base) : base[i].abi # "" }
        inner == IF blocks = {} THEN base
                 ELSE LET fb == CHOOSE i \in blocks : \A j \in blocks : i <= j
                      IN [base EXCEPT ![fb].members = @ \o ItemsToExtern(base, patch)]
    IN ItemsToTop(base, patch) \o inner \o ItemsToBot(base, patch)

ItemTasks(base, patch) ==
    (IF ItemsToTop(base, patch) # <<>>
       THEN <<Task("insert_items_top", <<"items", <<>>>>, 0)>> ELSE <<>>)
    \o (IF ItemsToBot(base, patch) # <<>>
          THEN <<Task("insert_items_bot", <<"items", <<>>>>, 0)>> ELSE <<>>)
    \o [k \in 1..Len(ItemsToExtern(base, patch)) |->
          Task("insert_extern_item", <<"items", <<>>>>, 0)]

\* merger_core::run: pair the conditional macros and plan the edits of the base files
MergerPlan ==
    /\ kind = "merger" /\ pc = "plan"
    /\ LET pairs == MergePairs(UniqueRef(hayroll_conditional_macros, <<>>),
                               ConditionalSeeds(patch_seeds))
       IN IF PairsReadable(pairs)
          THEN /\ delayed_tasks' = PairEdits(UniqueRef(hayroll_conditional_macros, <<>>),
                                             ConditionalSeeds(patch_seeds))
                                   \o ItemTasks(base_items, patch_items)
               /\ pc' = "apply"
               /\ err' = err
          ELSE /\ delayed_tasks' = delayed_tasks
               /\ pc' = "fatal"
               /\ err' = UnwrapNone
    /\ UNCHANGED <<kind, extractVars, clusterVars, diags, out_regions, out_inserts, runVars, itemVars>>

\* base_builder_set.finish(), apply_source_change: the in-memory text
MergerApply ==
    /\ kind = "merger" /\ pc = "apply"
    /\ tags' = MergedTags(Located(tags), Located(patch_tags),
                          MergePairs(UniqueRef(hayroll_conditional_macros, <<>>),
                                     ConditionalSeeds(patch_seeds)))
    /\ base_items' = MergedItems(base_items, patch_items)
    /\ pc' = "write"
    /\ UNCHANGED <<kind, err, cur, consumed, hayroll_seeds, unmatched_begin_tags,
                   clusterVars, editVars, runVars, patch_items>>

\* one whole variant-merge run as a function of the two workspaces
MergeRun(btags, bitems, ptags, pitems) ==
    LET rb == extract_hayroll_seeds_from_syntax_roots(Located(btags))
        rp == extract_hayroll_seeds_from_syntax_roots(Located(ptags))
    IN IF ~rb.ok \/ ~rp.ok THEN [ok |-> FALSE, tags |-> btags, items |-> bitems]
       ELSE IF ~PairsReadable(MergePairs(UniqueRef(ConditionalSeeds(rb.seeds), <<>>),
                                         ConditionalSeeds(rp.seeds)))
       THEN [ok |-> FALSE, tags |-> btags, items |-> bitems]
       ELSE [ok |-> TRUE,
             tags |-> MergedTags(Located(btags), Located(ptags),
                                 MergePairs(UniqueRef(ConditionalSeeds(rb.seeds), <<>>),
                                            ConditionalSeeds(rp.seeds))),
             items |-> MergedItems(bitems, pitems)]

MergerWriteFile == WriteFile("merger")

\* tags of a small instrumented workspace
RunLoc1 == "a.c:1:1"
RunLoc2 == "a.c:2:1"
RunLoc3 == "a.c:3:1"

RunTags ==
    { [DefaultTag EXCEPT !.locBegin = RunLoc1, !.ty = TyI, !.canBeFn = TRUE,
                         !.argNames = <<"x">>],
      [DefaultTag EXCEPT !.locBegin = "a.c:1:5", !.ty = TyI, !.isArg = TRUE,
                         !.name = "x", !.locRefBegin = RunLoc1],
      [DefaultTag EXCEPT !.locBegin = RunLoc2, !.astKind = "Stmt"],
      [DefaultTag EXCEPT !.locBegin = RunLoc2, !.astKind = "Stmt", !.begin = FALSE],
      [DefaultTag EXCEPT !.locBegin = RunLoc3, !.astKind = "Stmt", !.seedType = "conditional",
                         !.body = <<"LetStmt">>],
      [DefaultTag EXCEPT !.locBegin = RunLoc3, !.astKind = "Stmt", !.seedType = "conditional",
                         !.body = <<"LetStmt">>, !.isPlaceholder = TRUE],
      [DefaultTag EXCEPT !.locBegin = "a.c:6:1", !.seedType = "conditional"],
      [DefaultTag EXCEPT !.locRefBegin = "m.h:2:1"],
      [DefaultTag EXCEPT !.locBegin = "a.c:5:1", !.astKind = "Decls", !.seedType = "conditional",
                         !.body = <<"Item">>, !.isPlaceholder = TRUE],
      [DefaultTag EXCEPT !.locBegin = RunLoc3, !.astKind = "Stmt", !.begin = FALSE,
                         !.seedType = "conditional"],
      [DefaultTag EXCEPT !.locBegin = RunLoc2, !.begin = FALSE],
      [DefaultTag EXCEPT !.locBegin = "a.c:4:1", !.astKind = "Decls"] }

\* conditional tags of the base workspace: a Stmts span and an Expr seed of one
\* macro (RunRef1), an Expr seed of another (RunRef2)
RunRef1 == "m.h:1:1"
RunRef2 == "m.h:2:1"
PatchLoc == "p.c:3:1"

CondTag(loc, ref, astKind, begin, ph, mv) ==
    [DefaultTag EXCEPT !.locBegin = loc, !.locRefBegin = ref, !.astKind = astKind,
                       !.begin = begin, !.seedType = "conditional",
                       !.isPlaceholder = ph, !.mergedVariants = mv]

\* the body of a concrete seed holds its own variant, the body of a base seed
\* that lists the patch in mergedVariants holds the patch's variant as well
MergerTags ==
    { [CondTag(RunLoc3, RunRef1, "Stmt", TRUE, ph, mv) EXCEPT
          !.body = IF ph THEN <<>> ELSE <<"base">> \o [k \in 1..Len(mv) |-> "patch"]] :
        ph \in BOOLEAN, mv \in {<<>>, <<PatchLoc>>} }
    \cup { CondTag(RunLoc3, RunRef1, "Stmt", FALSE, FALSE, <<>>) }
    \cup { [CondTag(RunLoc1, RunRef2, "Expr", TRUE, ph, <<>>) EXCEPT
              !.body = IF ph THEN <<>> ELSE <<"base">>] : ph \in BOOLEAN }
    \cup { [CondTag(RunLoc1, RunRef2, "Expr", TRUE, FALSE, <<>>) EXCEPT
              !.body = <<"base">>, !.absent = {"isPlaceholder"}] }

PatchTags ==
    { [CondTag(PatchLoc, RunRef1, "Stmt", TRUE, ph, <<>>) EXCEPT
          !.body = IF ph THEN <<>> ELSE <<"patch">>] : ph \in BOOLEAN }
    \cup { CondTag(PatchLoc, RunRef1, "Stmt", FALSE, FALSE, <<>>) }
    \cup { [CondTag(PatchLoc, RunRef2, "Expr", TRUE, FALSE, <<>>) EXCEPT !.body = <<"patch">>] }

\* <<items of the base file, items of the patch file>>
ItemConfigs ==
    { << <<>>, <<>> >>,
      << <<Item("f", "", FALSE)>>,
         <<Item("f", "", FALSE), Item("g", "", FALSE), Item("m", "", TRUE), Item("", "", FALSE)>> >>,
      << <<ExternBlock("C", <<Item("a", "", FALSE)>>)>>,
         <<ExternBlock("C", <<Item("a", "", FALSE), Item("b", "", FALSE)>>)>> >> }

Init ==
    /\ kind \in {"reaper", "cleaner", "merger"}
    /\ pc = "extract"
    /\ err = ""
    /\ tags \in IF kind = "merger" THEN SeqsUpTo(MergerTags, MaxMergerTags)
                ELSE SeqsUpTo(RunTags, MaxRunTags)
    /\ patch_tags \in IF kind = "merger" THEN SeqsUpTo(PatchTags, MaxMergerTags) ELSE {<<>>}
    /\ cur = <<>>
    /\ consumed = 0
    /\ hayroll_seeds = <<>>
    /\ unmatched_begin_tags = <<>>
    /\ hayroll_macro_invs = <<>>
    /\ hayroll_conditional_macros = <<>>
    /\ db = EmptyMap
    /\ visited = {}
    /\ delayed_tasks = <<>>
    /\ diags = <<>>
    /\ out_regions = <<>>
    /\ out_inserts = <<>>
    /\ patch_seeds = <<>>
    /\ written = {}
    /\ \E cfg \in ItemConfigs :
         /\ base_items = (IF kind = "merger" THEN cfg[1] ELSE <<>>)
         /\ patch_items = (IF kind = "merger" THEN cfg[2] ELSE <<>>)

Next ==
    \/ ReaperExtractSeeds
    \/ ReaperExtractInvs
    \/ ReaperBuildDB
    \/ \E key \in DOMAIN db : ReaperPlanCluster(key)
    \/ ReaperPlanConditionals
    \/ ReaperApplyTasks
    \/ ReaperCommit
    \/ ReaperWriteFile
    \/ CleanerPass1
    \/ CleanerPass2
    \/ CleanerWriteFile
    \/ MergerExtractBase
    \/ MergerExtractPatch
    \/ MergerPlan
    \/ MergerApply
    \/ MergerWriteFile

Spec == Init /\ [][Next]_vars

-----------------------------------------------------------------------------
(* Properties of the extraction *)

StmtsSeedsOf(seeds) == { i \in 1..Len(seeds) : seeds[i].shape = "Stmts" }

\* C1: every Stmts seed that extract_hayroll_seeds_from_syntax_roots returns has
\* a begin tag with begin = true, an end tag with begin = false, and the two
\* tags agree on locBegin and on seedType.
C1_StmtsPairing ==
    (kind = "lib" /\ pc = "returned") =>
        \A i \in StmtsSeedsOf(hayroll_seeds) :
            /\ hayroll_seeds[i].tagBegin.begin = TRUE
            /\ hayroll_seeds[i].tagEnd.begin = FALSE
            /\ hayroll_seeds[i].tagBegin.locBegin = hayroll_seeds[i].tagEnd.locBegin
            /\ hayroll_seeds[i].tagBegin.seedType = hayroll_seeds[i].tagEnd.seedType

C1_Witness ==
    /\ kind = "lib" /\ pc = "returned"
    /\ Cardinality(StmtsSeedsOf(hayroll_seeds)) >= 1
    /\ Len(hayroll_seeds) >= 2

\* some Stmts seed built so far begins at the tag's locBegin with its seedType
HasBeginFor(seeds, tag) ==
    \E i \in StmtsSeedsOf(seeds) :
        /\ seeds[i].tagBegin.locBegin = tag.locBegin
        /\ seeds[i].tagBegin.seedType = tag.seedType

\* C3: when the fold consumes an end tag (begin = false) and no Stmts seed built
\* before it has a begin tag with the same locBegin and seedType, extraction
\* ends in a fatal error, and a fatal extraction never returns a seed list.
C3_UnmatchedEndIsFatal ==
    [][ /\ ( /\ kind = "lib" /\ pc = "fold"
             /\ consumed' = consumed + 1
             /\ cur'[1].begin = FALSE
             /\ ~HasBeginFor(hayroll_seeds, cur'[1]) )
           => pc' = "fatal"
        /\ pc = "fatal" => pc' = "fatal" ]_vars

C3_Witness ==
    /\ kind = "lib" /\ pc = "fatal"
    /\ err = "No matching begin stmt found for end stmt"
    /\ cur # <<>> /\ cur[1].begin = FALSE
    /\ cur[1].astKind \in {"Stmt", "Stmts"}
    /\ StmtsSeedsOf(hayroll_seeds) # {}
    /\ ~HasBeginFor(hayroll_seeds, cur[1])

-----------------------------------------------------------------------------
(* Properties of clustering and of the invocation pass *)

Incompatible(key) ==
    /\ ~can_be_fn(hayroll_macro_invs, db[key])
    /\ ~invs_internally_structurally_compatible(hayroll_macro_invs, db[key])

TasksOf(key) == { t \in 1..Len(delayed_tasks) : delayed_tasks[t].key = key }

SkipWarned(key) ==
    \E d \in 1..Len(diags) :
        /\ diags[d].level = "warn"
        /\ diags[d].loc = inv_tag(hayroll_macro_invs[db[key][1]]).locBegin

\* C5: for a cluster that is neither can_be_fn nor internally structurally
\* compatible the invocation pass plans nothing (no definition insertion, no
\* call-site replacement), emits one warning and goes on without a fatal error;
\* after the edits are applied every call site of the cluster is still
\* instrumented and nothing was inserted for it.
C5_SkippedState ==
    (kind = "reaper" /\ pc \in {"plan_invocations", "apply", "applied"}) =>
        \A key \in visited :
            Incompatible(key) =>
                /\ TasksOf(key) = {}
                /\ SkipWarned(key)
                /\ \A j \in 1..Len(db[key]) : out_regions[db[key][j]] = "instrumented"
                /\ \A n \in 1..Len(out_inserts) : out_inserts[n].key # key

C5_SkipStep ==
    \A key \in DOMAIN db :
        (key \notin visited /\ key \in visited' /\ Incompatible(key)) =>
            /\ pc' = "plan_invocations"
            /\ delayed_tasks' = delayed_tasks
            /\ Len(diags') = Len(diags) + 1

C5_IncompatibleClusterSkipped == [](C5_SkippedState) /\ [][C5_SkipStep]_vars

C5_Witness ==
    /\ kind = "reaper" /\ pc = "applied"
    /\ \E key \in visited : Incompatible(key) /\ Len(db[key]) >= 2
    /\ \E n \in 1..Len(hayroll_macro_invs) : out_regions[n] # "instrumented"

HasEmptySlot(inv) == \E k \in 1..Len(inv.args) : inv.args[k].seeds = <<>>

InSomeCluster(n) == \E key \in DOMAIN db : \E j \in 1..Len(db[key]) : db[key][j] = n

\* C6: an invocation with an empty argument slot is processed without a fatal
\* error: it is assigned to a cluster, and the call generated for it omits the
\* argument and a warning is emitted.  Stated for a workspace whose only
\* invocation is the one with the empty slot.
C6_EmptySlotProcessed ==
    ( /\ kind = "reaper" /\ tags = <<>>
      /\ Len(hayroll_macro_invs) = 1
      /\ HasEmptySlot(hayroll_macro_invs[1]) ) =>
        /\ pc # "fatal"
        /\ (pc \in {"plan_invocations", "apply", "applied"} => InSomeCluster(1))
        /\ (pc = "applied" =>
                /\ out_regions[1] \in {"fn_call", "macro_call", "removed"}
                /\ \E d \in 1..Len(diags) : diags[d].msg = "argument is never used in macro")

AllPairsTypeCompat(c) ==
    \A i \in 1..Len(c) : \A j \in 1..Len(c) :
        InvTypeCompat(hayroll_macro_invs[c[i]], hayroll_macro_invs[c[j]])

AllHintsTrue(c) ==
    \A i \in 1..Len(c) : hayroll_macro_invs[c[i]].seed.tagBegin.canBeFn = TRUE

\* C7: can_be_fn() of a cluster is true exactly when every pair of its
\* invocations is type-compatible, in either order, and every invocation's
\* canBeFn hint is true.
\* The same is checked for the list of all invocations taken as one cluster.
C7_CanBeFnIsPairwise ==
    LET all == [n \in 1..Len(hayroll_macro_invs) |-> n]
    IN /\ \A key \in DOMAIN db :
            can_be_fn(hayroll_macro_invs, db[key])
               <=> (AllPairsTypeCompat(db[key]) /\ AllHintsTrue(db[key]))
       /\ all # <<>> =>
            (can_be_fn(hayroll_macro_invs, all)
               <=> (AllPairsTypeCompat(all) /\ AllHintsTrue(all)))

C7_Witness ==
    /\ kind = "reaper" /\ pc = "plan_invocations"
    /\ \E key \in DOMAIN db :
         LET c == db[key]
         IN /\ Len(c) = 3
            /\ AllHintsTrue(c)
            /\ hayroll_macro_invs[c[1]] # hayroll_macro_invs[c[2]]
            /\ InvTypeCompat(hayroll_macro_invs[c[1]], hayroll_macro_invs[c[2]])
            /\ ~InvTypeCompat(hayroll_macro_invs[c[3]], hayroll_macro_invs[c[3]])
            /\ ~can_be_fn(hayroll_macro_invs, c)

SeedsOfInv(inv) ==
    {inv.seed} \cup UNION { { inv.args[k].seeds[j] : j \in 1..Len(inv.args[k].seeds) }
                              : k \in 1..Len(inv.args) }

AllInvs  == { hayroll_macro_invs[n] : n \in 1..Len(hayroll_macro_invs) }
AllSeeds == UNION { SeedsOfInv(inv) : inv \in AllInvs }

\* C8: type compatibility implies structural compatibility, for any two seeds
\* and for any two invocations.
C8_TypeImpliesStructural ==
    /\ \A a \in AllSeeds : \A b \in AllSeeds :
          SeedTypeCompat(a, b) => SeedStructCompat(a, b)
    /\ \A a \in AllInvs : \A b \in AllInvs :
          InvTypeCompat(a, b) => InvStructCompat(a, b)

C8_Witness ==
    /\ kind = "reaper" /\ Len(hayroll_macro_invs) = 3
    /\ \E a \in AllInvs : \E b \in AllInvs :
         a # b /\ a.args # <<>> /\ InvTypeCompat(a, b)
    /\ \E a \in AllInvs : \E b \in AllInvs :
         a.seed.shape # b.seed.shape /\ ~InvTypeCompat(a, b)

OccShapes(a, b, k) ==
    { a.args[k].seeds[j].shape : j \in 1..Len(a.args[k].seeds) }
      \cup { b.args[k].seeds[j].shape : j \in 1..Len(b.args[k].seeds) }

SameBodyAndSlotCount(a, b) ==
    a.seed.shape = b.seed.shape /\ Len(a.args) = Len(b.args)

\* C9 as stated: an empty slot is a wildcard.  Two invocations with the same
\* body shape and slot count are structurally compatible whenever, per slot,
\* at least one of the two slots is empty or all bound occurrences have the
\* same seed shape.
C9_EmptySlotIsWildcard ==
    \A a \in AllInvs : \A b \in AllInvs :
        ( /\ SameBodyAndSlotCount(a, b)
          /\ \A k \in 1..Len(a.args) :
                \/ a.args[k].seeds = <<>>
                \/ b.args[k].seeds = <<>>
                \/ Cardinality(OccShapes(a, b, k)) = 1 )
        => InvStructCompat(a, b)

\* C9 as amended: an empty slot matches only an empty slot.  Two invocations
\* with the same body shape and slot count are structurally compatible
\* whenever, per slot, both slots are empty, or both are non-empty and all
\* occurrences bound in the two slots have the same seed shape.
C9_EmptyMatchesEmpty ==
    \A a \in AllInvs : \A b \in AllInvs :
        ( /\ SameBodyAndSlotCount(a, b)
          /\ \A k \in 1..Len(a.args) :
                \/ (a.args[k].seeds = <<>> /\ b.args[k].seeds = <<>>)
                \/ ( /\ a.args[k].seeds # <<>> /\ b.args[k].seeds # <<>>
                     /\ Cardinality(OccShapes(a, b, k)) = 1 ) )
        => InvStructCompat(a, b)

C9_Witness ==
    /\ kind = "reaper"
    /\ \E a \in AllInvs : \E b \in AllInvs :
         /\ a # b /\ SameBodyAndSlotCount(a, b)
         /\ HasEmptySlot(a) /\ HasEmptySlot(b)
         /\ InvStructCompat(a, b)
    /\ \E a \in AllInvs : \E b \in AllInvs :
         /\ SameBodyAndSlotCount(a, b)
         /\ HasEmptySlot(a) /\ ~HasEmptySlot(b)
         /\ ~InvStructCompat(a, b)

TypeTexts(inv, k) == { base_type(inv.args[k].seeds[j]) : j \in 1..Len(inv.args[k].seeds) }

SameTextualTypes(a, b) ==
    /\ (a.seed.shape = "Expr" \/ b.seed.shape = "Expr") =>
          (a.seed.shape = b.seed.shape /\ base_type(a.seed) = base_type(b.seed))
    /\ Len(a.args) = Len(b.args)
    /\ \A k \in 1..Len(a.args) :
          Cardinality(TypeTexts(a, k) \cup TypeTexts(b, k)) <= 1

-----------------------------------------------------------------------------
(* Properties of the runs *)

SelfPaired(seeds) ==
    \E i \in 1..Len(seeds) : seeds[i].shape = "Stmts" /\ seeds[i].tagEnd.begin = TRUE

\* C2: in the reconstruction, cleanup and variant-merge runs a Stmts begin tag
\* without an end tag aborts the run during extraction: once the seeds are
\* handed on (to clustering, synthesis, conditional reconstruction, cleanup or
\* merge planning) no Stmts seed still has its own begin tag as its end tag.
C2_UnmatchedBeginIsFatal ==
    (kind \in {"reaper", "cleaner", "merger"} /\ pc \notin {"extract", "extract_invs", "fatal"}) =>
        /\ ~SelfPaired(hayroll_seeds)
        /\ ~SelfPaired(patch_seeds)
        /\ \A n \in 1..Len(hayroll_macro_invs) : ~SelfPaired(<<hayroll_macro_invs[n].seed>>)
        /\ ~SelfPaired(hayroll_conditional_macros)

PhaseSeq ==
    [ reaper  |-> <<"extract", "extract_invs", "build_db", "plan_invocations", "apply",
                    "applied", "write", "done">>,
      cleaner |-> <<"extract", "pass2", "write", "done">>,
      merger  |-> <<"extract", "extract_patch", "plan", "apply", "write", "done">> ]

PhaseIndex(k, p) == CHOOSE i \in 1..Len(PhaseSeq[k]) : PhaseSeq[k][i] = p

\* a step of a run: a file is written only in the write phase, and a phase is
\* entered only from the phase before it, which has succeeded
C4_RunStep ==
    kind \in {"reaper", "cleaner", "merger"} =>
        /\ (written' # written => (pc = "write" /\ err = ""))
        /\ (pc' # pc /\ pc' # "fatal") =>
              (pc # "fatal" /\ PhaseIndex(kind, pc') = PhaseIndex(kind, pc) + 1)

\* C4: a run writes files only after all its extraction, planning and
\* edit-application steps have succeeded; when one of them ends the run with a
\* fatal error, no file has been written.
C4_WritesOnlyAfterPlanning ==
    /\ []((pc = "fatal" /\ err # "fs::write failed") => written = {})
    /\ []((pc \notin {"write", "done", "fatal"}) => written = {})
    /\ [][C4_RunStep]_vars

C4_Witness ==
    /\ kind = "reaper" /\ pc = "fatal" /\ err # "fs::write failed"
    /\ hayroll_macro_invs # <<>>
    /\ written = {}

C4_WitnessWritten ==
    /\ kind = "cleaner" /\ pc = "done" /\ written = Files
    /\ delayed_tasks # <<>>

-----------------------------------------------------------------------------
(* Properties of template synthesis *)

MacroRulesTasks(key) ==
    { t \in 1..Len(delayed_tasks) :
        delayed_tasks[t].op = "insert_macro_rules_top" /\ delayed_tasks[t].key = key }

MacroCallKeys(n) ==
    { delayed_tasks[t].key : t \in { u \in 1..Len(delayed_tasks) :
        delayed_tasks[u].op = "replace_with_macro_call" /\ delayed_tasks[u].inv = n } }

\* two call sites of one macro, functions disallowed, same shapes, the base
\* types of the first argument differ
TwoSitesDifferingArgType(i, j) ==
    LET a == hayroll_macro_invs[i]
        b == hayroll_macro_invs[j]
    IN /\ i # j
       /\ inv_tag(a).locRefBegin = inv_tag(b).locRefBegin
       /\ ~inv_tag(a).canBeFn /\ ~inv_tag(b).canBeFn
       /\ InvStructCompat(a, b)
       /\ Len(a.args) >= 1
       /\ a.args[1].seeds # <<>> /\ b.args[1].seeds # <<>>
       /\ HasBaseType(a.args[1].seeds[1])
       /\ base_type(a.args[1].seeds[1]) # base_type(b.args[1].seeds[1])

-----------------------------------------------------------------------------
(* Properties of the variant merge *)

WithRef(seeds, ref) == SelectSeq(seeds, LAMBDA sd : first_tag(sd).locRefBegin = ref)

MergeRefs == { first_tag(hayroll_conditional_macros[i]).locRefBegin :
                 i \in 1..Len(hayroll_conditional_macros) }

IsPaired(ref) ==
    /\ WithRef(hayroll_conditional_macros, ref) # <<>>
    /\ WithRef(ConditionalSeeds(patch_seeds), ref) # <<>>

BaseOf(ref)  == WithRef(hayroll_conditional_macros, ref)[1]
PatchOf(ref) == WithRef(ConditionalSeeds(patch_seeds), ref)[1]

PairTasks(ref) == { t \in 1..Len(delayed_tasks) : delayed_tasks[t].key[1] = ref }

\* C12: for a (base, patch) pair of conditional seeds matched by locRefBegin the
\* merge plans an edit of the base tree only when base is a placeholder and
\* patch is concrete, or both are concrete and patch's locBegin is not in base's
\* mergedVariants; when base is concrete and patch a placeholder, when both are
\* placeholders, and when both are concrete and patch's locBegin is already in
\* base's mergedVariants, it plans no edit for the pair.
C12_MergeEditsOnlyWhenNeeded ==
    (kind = "merger" /\ pc \in {"apply", "write", "done"}) =>
        \A ref \in MergeRefs :
            IsPaired(ref) =>
                LET bp == first_tag(BaseOf(ref)).isPlaceholder
                    pp == first_tag(PatchOf(ref)).isPlaceholder
                    merged == \E v \in 1..Len(first_tag(BaseOf(ref)).mergedVariants) :
                                 first_tag(BaseOf(ref)).mergedVariants[v]
                                    = first_tag(PatchOf(ref)).locBegin
                IN /\ PairTasks(ref) # {} =>
                        ((bp /\ ~pp) \/ (~bp /\ ~pp /\ ~merged))
                   /\ ((~bp /\ pp) \/ (bp /\ pp) \/ (~bp /\ ~pp /\ merged)) =>
                        PairTasks(ref) = {}

C12_Witness ==
    /\ kind = "merger" /\ pc = "apply"
    /\ \E ref \in MergeRefs :
         /\ IsPaired(ref)
         /\ ~first_tag(BaseOf(ref)).isPlaceholder
         /\ ~first_tag(PatchOf(ref)).isPlaceholder
         /\ first_tag(BaseOf(ref)).mergedVariants = <<first_tag(PatchOf(ref)).locBegin>>
         /\ PairTasks(ref) = {}

\* C13: a second variant-merge run with the same patch workspace leaves the base
\* workspace as the first run left it: the conditional seeds (tags and bodies)
\* and the top-level and extern-block items are unchanged by the second run.
C13_MergeIdempotent ==
    (kind = "merger" /\ pc \in {"write", "done"}) =>
        LET again == MergeRun(tags, base_items, patch_tags, patch_items)
        IN /\ again.ok
           /\ again.tags = tags
           /\ again.items = base_items

-----------------------------------------------------------------------------
(* Properties of the cleanup *)

\* C14: when the cleanup run has completed, extracting seeds from its output
\* succeeds and finds no seed of any shape.
C14_CleanupLeavesNoSeed ==
    (kind = "cleaner" /\ pc \in {"write", "done"}) =>
        LET r == extract_hayroll_seeds_from_syntax_roots(tags)
        IN r.ok /\ r.seeds = <<>>

-----------------------------------------------------------------------------
(* Properties of the conditional reconstruction *)

CfgOps == {"replace_then_branch", "add_attr", "add_attr_item"}

ConditionalsPlanned == kind = "reaper" /\ pc \in {"apply", "applied", "write", "done"}

\* the planned edits of the conditional seed whose first tag is at position pos
CfgTasksFor(pos) ==
    { n \in 1..Len(delayed_tasks) :
        delayed_tasks[n].op \in CfgOps /\ delayed_tasks[n].seed = pos }

PlaceholderSeeds ==
    { i \in 1..Len(hayroll_conditional_macros) :
        first_tag(hayroll_conditional_macros[i]).isPlaceholder }

\* C15 as stated: no edit is planned for a conditional seed whose isPlaceholder
\* is true, whatever its shape.
C15_NoEditForPlaceholder ==
    ConditionalsPlanned =>
        \A i \in PlaceholderSeeds :
            CfgTasksFor(first_tag(hayroll_conditional_macros[i]).pos) = {}

\* C15: no edit is planned for a conditional seed of shape Expr or Stmts whose
\* isPlaceholder is true; a placeholder Decls seed is gated item by item.
C15_NoEditForPlaceholderExprStmts ==
    ConditionalsPlanned =>
        \A i \in PlaceholderSeeds :
            LET seed == hayroll_conditional_macros[i]
            IN IF seed.shape = "Decls"
               THEN Cardinality(CfgTasksFor(first_tag(seed).pos)) = Len(first_tag(seed).body)
               ELSE CfgTasksFor(first_tag(seed).pos) = {}

\* a placeholder Stmts seed, closed by its end tag, with a plain statement in
\* its span, next to a placeholder Decls seed that holds an item
C15_Witness ==
    /\ ConditionalsPlanned
    /\ \E i, j \in PlaceholderSeeds :
         /\ hayroll_conditional_macros[i].shape = "Stmts"
         /\ hayroll_conditional_macros[i].tagEnd # hayroll_conditional_macros[i].tagBegin
         /\ first_tag(hayroll_conditional_macros[i]).body # <<>>
         /\ hayroll_conditional_macros[j].shape = "Decls"
         /\ first_tag(hayroll_conditional_macros[j]).body # <<>>

\* the statements that a planned edit of the seed at pos gates
GatedBy(pos) == { delayed_tasks[n].inv : n \in CfgTasksFor(pos) }

\* C16: for a conditional Stmts seed that is not a placeholder and is closed by
\* its end tag, the gate is planned for exactly the statements strictly between
\* the begin and end markers that are not themselves tag markers.
C16_GateOnSpanStatements ==
    ConditionalsPlanned =>
        \A i \in 1..Len(hayroll_conditional_macros) :
            LET seed == hayroll_conditional_macros[i]
                stmts == FileStmts(tags)
            IN (seed.shape = "Stmts" /\ ~first_tag(seed).isPlaceholder
                   /\ seed.tagEnd.pos # seed.tagBegin.pos) =>
                 GatedBy(seed.tagBegin.pos) =
                    { k \in 1..Len(stmts) :
                        /\ StmtIndex(stmts, seed.tagBegin.pos) < k
                        /\ k < StmtIndex(stmts, seed.tagEnd.pos)
                        /\ ~stmts[k].marker }

-----------------------------------------------------------------------------
(* Properties of the order of planning and application *)

\* C17: the edits of the invocation pass and the edits of the conditional pass
\* are never in one batch: the list of planned edits that is applied together
\* never holds an edit of a call site or template next to an edit that gates a
\* conditional seed.
C17_PassesNotBatchedTogether ==
    kind = "reaper" =>
        ~(\E m, n \in 1..Len(delayed_tasks) :
             delayed_tasks[m].op \in CfgOps /\ delayed_tasks[n].op \notin CfgOps)


NothingApplied ==
    /\ \A j \in 1..Len(out_regions) : out_regions[j] = "instrumented"
    /\ out_inserts = <<>>

\* C18: in a reaper run an edit is planned only while no edit has been applied,
\* and edits are applied only when every cluster and every conditional seed has
\* been visited, by a step that plans nothing; the merger changes the base file
\* only in its apply step; replace_arg_regions_into pushes the substitution of
\* every argument occurrence before it runs the first one.
C18_ApplyAfterPlanning ==
    /\ [][ /\ (kind = "reaper" /\ delayed_tasks' # delayed_tasks) => NothingApplied
           /\ (kind = "reaper" /\ pc # "extract_invs"
                 /\ (out_regions' # out_regions \/ out_inserts' # out_inserts)) =>
                 /\ pc = "apply"
                 /\ visited = DOMAIN db
                 /\ delayed_tasks' = delayed_tasks
           /\ (kind = "merger" /\ (tags' # tags \/ base_items' # base_items)) =>
                 /\ pc = "apply"
                 /\ delayed_tasks' = delayed_tasks ]_vars
    /\ [](\A i \in 1..Len(hayroll_macro_invs) :
            LET steps == replace_arg_regions_into(hayroll_macro_invs[i])
            IN \A m, n \in 1..Len(steps) :
                 (steps[m][1] = "run" /\ steps[n][1] = "push") => n < m)

\* edits of one cluster are planned, another cluster is still to be visited
C18_Witness ==
    /\ kind = "reaper" /\ pc = "plan_invocations"
    /\ delayed_tasks # <<>>
    /\ visited # DOMAIN db
    /\ NothingApplied

-----------------------------------------------------------------------------
(* Properties of the positions of planned edits *)

ReplaceOps == {"replace_with_fn_call", "replace_with_macro_call"}

\* the region of inner lies inside the region of outer: outer is a Stmts seed
\* closed by its end tag and the tag of inner is between the two markers
Inside(inner, outer) ==
    /\ outer.shape = "Stmts"
    /\ outer.tagBegin.pos < inner.tagBegin.pos
    /\ inner.tagBegin.pos < outer.tagEnd.pos

\* C19: when a planned replacement of a call site is applied, no replacement
\* applied before it in the same batch has replaced a region that contains its
\* target, whatever the order in which the clusters were visited.
C19_TargetsStayAttached ==
    (kind = "reaper" /\ pc \in {"applied", "write", "done"}) =>
        \A m, n \in 1..Len(delayed_tasks) :
            (m < n /\ delayed_tasks[m].op \in ReplaceOps /\ delayed_tasks[n].op \in ReplaceOps) =>
                ~Inside(hayroll_macro_invs[delayed_tasks[n].inv].seed,
                        hayroll_macro_invs[delayed_tasks[m].inv].seed)

-----------------------------------------------------------------------------
(* Properties of the tag accessors *)

OptionalFields == {"isPlaceholder", "premise"}
RequiredFields == {"seedType", "astKind", "begin", "name", "argNames", "locBegin", "locRefBegin"}

\* C20: reading isPlaceholder or premise from a payload that lacks the field
\* yields a value and no failure, reading an absent required field fails; a
\* merge run never stops on an absent isPlaceholder.
C20_AccessorsByKind ==
    kind = "merger" =>
        /\ \A i \in 1..Len(tags) :
             /\ \A f \in OptionalFields : ReadField([tags[i] EXCEPT !.absent = {f}], f).ok
             /\ \A f \in RequiredFields : ~ReadField([tags[i] EXCEPT !.absent = {f}], f).ok
        /\ ~(pc = "fatal" /\ err = UnwrapNone)

-----------------------------------------------------------------------------
(* Properties of the end-tag search *)

\* the fold consumes `cur'[1]` in this step
FoldStep == kind = "lib" /\ pc = "fold" /\ consumed' = consumed + 1

\* the Stmts seeds that still hold their begin tag as end tag and begin at the
\* tag's locBegin with its seedType
OpenMatching(seeds, tag) ==
    { i \in 1..Len(seeds) :
        /\ seeds[i].shape = "Stmts"
        /\ seeds[i].tagEnd.begin = TRUE
        /\ seeds[i].tagBegin.locBegin = tag.locBegin
        /\ seeds[i].tagBegin.seedType = tag.seedType }

\* C21: an end tag that the fold accepts is bound to the most recently created
\* Stmts seed that is still open and shares its locBegin and seedType; a seed
\* that already has its end tag is not bound again.
C21_EndBindsMostRecentOpen ==
    [][ ( /\ FoldStep
          /\ cur'[1].begin = FALSE
          /\ cur'[1].astKind \in {"Stmt", "Stmts"}
          /\ pc' = "fold" )
        => \E i \in OpenMatching(hayroll_seeds, cur'[1]) :
              /\ \A j \in OpenMatching(hayroll_seeds, cur'[1]) : j <= i
              /\ hayroll_seeds' = [hayroll_seeds EXCEPT ![i].tagEnd = cur'[1]] ]_vars

KnownKinds == {"Expr", "Stmt", "Stmts", "Decl", "Decls"}

\* C22 as stated: a tag of an unknown astKind always ends the extraction with
\* the unknown-tag error, whatever its begin field.
C22_UnknownKindIsFatal ==
    [][ (FoldStep /\ cur'[1].astKind \notin KnownKinds)
        => (pc' = "fatal" /\ err' = "Unknown tag") ]_vars

\* C22: a tag of an unknown astKind whose begin is true ends the extraction
\* with the unknown-tag error; one whose begin is false is taken as an end tag:
\* it is bound to the last Stmts seed with its locBegin and seedType, and the
\* extraction is fatal when there is none.
C22_UnknownKindByBegin ==
    [][ (FoldStep /\ cur'[1].astKind \notin KnownKinds)
        => IF cur'[1].begin THEN pc' = "fatal" /\ err' = "Unknown tag"
           ELSE IF HasBeginFor(hayroll_seeds, cur'[1])
           THEN /\ pc' = "fold"
                /\ \E i \in StmtsSeedsOf(hayroll_seeds) : hayroll_seeds'[i].tagEnd = cur'[1]
                /\ Len(hayroll_seeds') = Len(hayroll_seeds)
           ELSE pc' = "fatal" /\ err' = "No matching begin stmt found for end stmt" ]_vars

\* a tag of unknown astKind has just been bound as the end tag of a Stmts seed
C22_Witness ==
    /\ kind = "lib" /\ pc = "fold"
    /\ cur # <<>> /\ cur[1].astKind \notin KnownKinds /\ cur[1].begin = FALSE
    /\ \E i \in StmtsSeedsOf(hayroll_seeds) : hayroll_seeds[i].tagEnd = cur[1]

-----------------------------------------------------------------------------
(* Properties of the invocations built from the seeds *)

RootIdx == { p \in 1..Len(hayroll_seeds) :
               is_invocation(first_tag(hayroll_seeds[p])) /\ ~first_tag(hayroll_seeds[p]).isArg }
ArgIdx  == { p \in 1..Len(hayroll_seeds) :
               is_invocation(first_tag(hayroll_seeds[p])) /\ first_tag(hayroll_seeds[p]).isArg }

\* the roots created before the argument at p that its locRefBegin refers to
RootsFor(p) ==
    { q \in RootIdx : q < p /\ first_tag(hayroll_seeds[q]).locBegin =
                                 first_tag(hayroll_seeds[p]).locRefBegin }

LastRootFor(p) == CHOOSE q \in RootsFor(p) : \A r \in RootsFor(p) : r <= q

ArgHasNoSlot(p) ==
    \/ RootsFor(p) = {}
    \/ \A k \in 1..Len(first_tag(hayroll_seeds[LastRootFor(p)]).argNames) :
          first_tag(hayroll_seeds[LastRootFor(p)]).argNames[k] # first_tag(hayroll_seeds[p]).name

\* the places <<invocation, slot, index>> at which the seed is bound
PlacesOf(seed) ==
    { x \in UNION { UNION { { <<i, k, j>> : j \in 1..Len(hayroll_macro_invs[i].args[k].seeds) } :
                              k \in 1..Len(hayroll_macro_invs[i].args) } :
                      i \in 1..Len(hayroll_macro_invs) } :
        hayroll_macro_invs[x[1]].args[x[2]].seeds[x[3]] = seed }

InvsExtracted ==
    kind = "reaper" /\ pc \in {"build_db", "plan_invocations", "apply", "applied", "write", "done"}

\* C23: the invocations are the invocation seeds with isArg false, in order;
\* each has one slot per argName, in order; every invocation seed with isArg true
\* is bound exactly once, in the first slot named after it of the last root
\* created before it whose locBegin is its locRefBegin; the extraction of the
\* invocations is fatal exactly when some argument has no such root or slot.
C23_InvsFromSeeds ==
    /\ [](InvsExtracted =>
            /\ [i \in 1..Len(hayroll_macro_invs) |-> hayroll_macro_invs[i].seed]
                 = SelectSeq(hayroll_seeds,
                       LAMBDA sd : is_invocation(first_tag(sd)) /\ ~first_tag(sd).isArg)
            /\ \A i \in 1..Len(hayroll_macro_invs) :
                 [k \in 1..Len(hayroll_macro_invs[i].args) |-> hayroll_macro_invs[i].args[k].name]
                    = inv_tag(hayroll_macro_invs[i]).argNames
            /\ \A i \in 1..Len(hayroll_macro_invs) :
                 \A k \in 1..Len(hayroll_macro_invs[i].args) :
                    \A j \in 1..Len(hayroll_macro_invs[i].args[k].seeds) :
                       \E p \in ArgIdx : hayroll_seeds[p] = hayroll_macro_invs[i].args[k].seeds[j]
            /\ \A p \in ArgIdx :
                 /\ Cardinality(PlacesOf(hayroll_seeds[p])) = 1
                 /\ \A x \in PlacesOf(hayroll_seeds[p]) :
                      LET inv == hayroll_macro_invs[x[1]]
                      IN /\ inv.seed = hayroll_seeds[LastRootFor(p)]
                         /\ inv.args[x[2]].name = first_tag(hayroll_seeds[p]).name
                         /\ \A k \in 1..(x[2] - 1) :
                              inv.args[k].name # first_tag(hayroll_seeds[p]).name
                         /\ \A j \in 1..(x[3] - 1) :
                              inv.args[x[2]].seeds[j].tagBegin.pos < hayroll_seeds[p].tagBegin.pos)
    /\ [][ (kind = "reaper" /\ pc = "extract_invs") =>
              ((pc' = "fatal") <=> (\E p \in ArgIdx : ArgHasNoSlot(p))) ]_vars

\* two roots of one locBegin, then an argument: it is bound in the later root
C23_Witness ==
    /\ InvsExtracted
    /\ Len(hayroll_macro_invs) = 2
    /\ inv_tag(hayroll_macro_invs[1]).locBegin = inv_tag(hayroll_macro_invs[2]).locBegin
    /\ Len(hayroll_macro_invs[1].args) = 1 /\ Len(hayroll_macro_invs[2].args) = 1
    /\ hayroll_macro_invs[1].args[1].seeds = <<>>
    /\ Len(hayroll_macro_invs[2].args[1].seeds) = 1

-----------------------------------------------------------------------------
(* Properties of the database of clusters *)

DBBuilt == kind = "reaper" /\ pc \in {"plan_invocations", "apply", "applied", "write", "done"}

\* C24: once the database is built, every invocation is in exactly one cluster,
\* at exactly one place, and that cluster is keyed by the invocation's own
\* (locRefBegin, signature); no cluster is empty; the invocations of a cluster
\* are in extraction order.
C24_ClustersPartition ==
    DBBuilt =>
        /\ \A i \in 1..Len(hayroll_macro_invs) :
             LET key == <<inv_tag(hayroll_macro_invs[i]).locRefBegin,
                          Signature(hayroll_macro_invs[i]).sig>>
             IN /\ key \in DOMAIN db
                /\ Cardinality({ j \in 1..Len(db[key]) : db[key][j] = i }) = 1
                /\ \A other \in DOMAIN db \ {key} :
                     \A j \in 1..Len(db[other]) : db[other][j] # i
        /\ \A key \in DOMAIN db :
             /\ db[key] # <<>>
             /\ \A j \in 1..Len(db[key]) : db[key][j] \in 1..Len(hayroll_macro_invs)
             /\ \A j \in 1..(Len(db[key]) - 1) : db[key][j] < db[key][j + 1]

\* two clusters, one of them with two invocations
C24_Witness ==
    /\ DBBuilt
    /\ Cardinality(DOMAIN db) = 2
    /\ \E key \in DOMAIN db : Len(db[key]) = 2

-----------------------------------------------------------------------------
(* Properties of the signature *)

\* the part of the signature the claim gives to a slot
StatedSlotPart(seeds) ==
    IF \E j \in 1..Len(seeds) : seeds[j].shape = "Stmts" THEN StmtText
    ELSE Sanitize(base_type(seeds[1]))

\* C25: for an invocation that is not Decl/Decls-shaped and has no empty slot,
\* signature() is the sanitized base type of the invocation (Expr only) joined
\* with one part per slot: "stmt" when some occurrence of the slot is a Stmts
\* seed, else the sanitized base type of the first occurrence.
C25_SignatureParts ==
    \A i \in 1..Len(hayroll_macro_invs) :
        LET inv == hayroll_macro_invs[i]
        IN (/\ ~(is_decl(inv_tag(inv)) \/ is_decls(inv_tag(inv)))
            /\ \A k \in 1..Len(inv.args) : inv.args[k].seeds # <<>>) =>
              /\ Signature(inv).ok
              /\ Signature(inv).sig =
                   JoinUnderscore(
                       (IF inv.seed.shape = "Expr" THEN <<Sanitize(base_type(inv.seed))>> ELSE <<>>)
                       \o [k \in 1..Len(inv.args) |-> StatedSlotPart(inv.args[k].seeds)])

-----------------------------------------------------------------------------
(* Properties of the synthesized callable *)

FnClusters == { key \in DOMAIN db : can_be_fn(hayroll_macro_invs, db[key]) }

-----------------------------------------------------------------------------
(* Properties of peeling *)

\* C27: peel_tag of the Stmts region [s, e] of an invocation is the region of
\* the indices s+1 .. e-1; it holds neither index s nor index e, also when
\* s = e and when e = 0.
C27_PeelDropsMarkers ==
    InvsExtracted =>
        \A i \in 1..Len(hayroll_macro_invs) :
            LET seed == hayroll_macro_invs[i].seed
                r == StmtsRange(seed, FileStmts(tags))
                peeled == RangeIndices(peel_tag(r))
            IN seed.shape = "Stmts" =>
                 /\ peeled = (r.start + 1)..(r.end - 1)
                 /\ r.start \notin peeled
                 /\ r.end \notin peeled

-----------------------------------------------------------------------------
(* Properties of the rewriting of Decls invocations *)

C29_ParamsMatchCallArgs ==
    DBBuilt =>
        \A key \in FnClusters :
            LET c == db[key]
                reqs == args_require_lvalue(hayroll_macro_invs, c)
                params == fn_params(hayroll_macro_invs[c[1]], reqs)
            IN \A j \in 1..Len(c) :
                 LET operands == call_args(hayroll_macro_invs[c[j]], reqs)
                 IN /\ Len(params) = Len(operands)
                    /\ \A n \in 1..Len(params) :
                         /\ params[n].slot = operands[n].slot
                         /\ params[n].by_ptr = operands[n].by_ptr
                    /\ \A k \in 1..Len(hayroll_macro_invs[c[1]].args) :
                         (hayroll_macro_invs[c[1]].args[k].seeds = <<>>)
                           <=> (hayroll_macro_invs[c[j]].args[k].seeds = <<>>)

\* a function cluster of two invocations with one parameter, next to a
\* function cluster whose slot is empty
C29_Witness ==
    /\ DBBuilt
    /\ \E key \in FnClusters :
         /\ Len(db[key]) >= 2
         /\ Len(fn_params(hayroll_macro_invs[db[key][1]],
                          args_require_lvalue(hayroll_macro_invs, db[key]))) = 1
    /\ \E key \in FnClusters :
         /\ hayroll_macro_invs[db[key][1]].args # <<>>
         /\ fn_params(hayroll_macro_invs[db[key][1]],
                      args_require_lvalue(hayroll_macro_invs, db[key])) = <<>>

-----------------------------------------------------------------------------
(* Properties of the order in which the clusters are visited *)

\* the keys of the database in the order in which from_hayroll_macro_invs
\* inserted them
InsertionOrder ==
    CHOOSE seq \in [1..Cardinality(DOMAIN db) -> DOMAIN db] :
        \A i, j \in 1..Cardinality(DOMAIN db) : i < j => db[seq[i]][1] < db[seq[j]][1]

\* the edits the invocation pass plans when it visits the clusters in this order
TasksInOrder(keys) ==
    Concat([i \in 1..Len(keys) |-> PlanCluster(hayroll_macro_invs, keys[i], db[keys[i]]).tasks])

\* C30: the output of a run does not depend on the order in which the cluster
\* map is iterated: the definitions inserted at the top and at the bottom of
\* the file are in the order that one fixed iteration order gives.
C30_OutputIndependentOfOrder ==
    (kind = "reaper" /\ pc \in {"applied", "write", "done"}) =>
        out_inserts = RunTasks(TasksInOrder(InsertionOrder), out_regions, <<>>).inserts

====
